---------------------------- MODULE Spec2Model ----------------------------
(***************************************************************************)
(* HabitVoice (habito): the command interpreter, the streak engine, the    *)
(* action executor and the confirmation gate, modelled from the Python     *)
(* sources under src/.                                                     *)
(*                                                                         *)
(* Strings that the code scans (command text, keywords, habit names        *)
(* returned by the oracle) are sequences of one-character strings, so that *)
(* in, lower(), strip() and the regular expressions are computed and not   *)
(* assumed.  Habit names stored in events, goals and commands are the      *)
(* taxonomy's names; Spelling gives the characters of each.                *)
(***************************************************************************)
EXTENDS Integers, Sequences, FiniteSets, TLC

VARIABLES
  session_state,    \* st.session_state: the per-session variables of app.py
  user_files,       \* users_data/<user>_habits.json, by user
  goal_files,       \* users_data/<user>_goals.json, by user
  now,              \* wall clock, in seconds
  page,             \* the widgets of the page the browser shows
  set_order,        \* the order in which this process iterates a set of categories
  last,             \* what the last script run was triggered by and reported
  cycles,           \* the interaction cycles of the session so far
  raw_text,         \* interpreter harness: the text given to parse_voice_command
  oracle_response,  \* interpreter harness: what the completion API does
  parsed_command,   \* interpreter harness: the VoiceCommand returned
  habit_logs,       \* analytics harness: the event list given to the engine
  today,            \* analytics harness: date.today(), as a day number
  streaks,          \* analytics harness: the mappings computed
  weekly            \* analytics harness: the goal map given and the weekly progress computed

vars == <<session_state, user_files, goal_files, now, set_order, page, last, cycles,
          raw_text, oracle_response, parsed_command, habit_logs, today, streaks,
          weekly>>

None == "None"

----------------------------------------------------------------------------
(* utils/constants.py                                                      *)

HABIT_CATEGORIES ==
  <<
    [category |-> "Health & Fitness",
     habits |-> <<"workout", "yoga", "running", "gym", "walking", "stretching", "sports">>],
    [category |-> "Mental & Learning",
     habits |-> <<"reading", "meditating", "journaling", "learning", "studying", "gratitude">>],
    [category |-> "Productivity",
     habits |-> <<"coding", "writing", "planning", "organizing", "learning english">>],
    [category |-> "Lifestyle",
     habits |-> <<"sleep early", "no phone", "drinking water", "healthy eating", "cleaning", "cooking">>],
    [category |-> "Creative",
     habits |-> <<"drawing", "music", "photography", "crafting", "dancing">>],
    [category |-> "Social",
     habits |-> <<"calling family", "meeting friends", "networking", "volunteering">>]
  >>

Spelling ==
  ("workout" :> <<"w","o","r","k","o","u","t">>) @@
  ("yoga" :> <<"y","o","g","a">>) @@
  ("running" :> <<"r","u","n","n","i","n","g">>) @@
  ("gym" :> <<"g","y","m">>) @@
  ("walking" :> <<"w","a","l","k","i","n","g">>) @@
  ("stretching" :> <<"s","t","r","e","t","c","h","i","n","g">>) @@
  ("sports" :> <<"s","p","o","r","t","s">>) @@
  ("reading" :> <<"r","e","a","d","i","n","g">>) @@
  ("meditating" :> <<"m","e","d","i","t","a","t","i","n","g">>) @@
  ("journaling" :> <<"j","o","u","r","n","a","l","i","n","g">>) @@
  ("learning" :> <<"l","e","a","r","n","i","n","g">>) @@
  ("studying" :> <<"s","t","u","d","y","i","n","g">>) @@
  ("gratitude" :> <<"g","r","a","t","i","t","u","d","e">>) @@
  ("coding" :> <<"c","o","d","i","n","g">>) @@
  ("writing" :> <<"w","r","i","t","i","n","g">>) @@
  ("planning" :> <<"p","l","a","n","n","i","n","g">>) @@
  ("organizing" :> <<"o","r","g","a","n","i","z","i","n","g">>) @@
  ("learning english" :> <<"l","e","a","r","n","i","n","g"," ","e","n","g","l","i","s","h">>) @@
  ("sleep early" :> <<"s","l","e","e","p"," ","e","a","r","l","y">>) @@
  ("no phone" :> <<"n","o"," ","p","h","o","n","e">>) @@
  ("drinking water" :> <<"d","r","i","n","k","i","n","g"," ","w","a","t","e","r">>) @@
  ("healthy eating" :> <<"h","e","a","l","t","h","y"," ","e","a","t","i","n","g">>) @@
  ("cleaning" :> <<"c","l","e","a","n","i","n","g">>) @@
  ("cooking" :> <<"c","o","o","k","i","n","g">>) @@
  ("drawing" :> <<"d","r","a","w","i","n","g">>) @@
  ("music" :> <<"m","u","s","i","c">>) @@
  ("photography" :> <<"p","h","o","t","o","g","r","a","p","h","y">>) @@
  ("crafting" :> <<"c","r","a","f","t","i","n","g">>) @@
  ("dancing" :> <<"d","a","n","c","i","n","g">>) @@
  ("calling family" :> <<"c","a","l","l","i","n","g"," ","f","a","m","i","l","y">>) @@
  ("meeting friends" :> <<"m","e","e","t","i","n","g"," ","f","r","i","e","n","d","s">>) @@
  ("networking" :> <<"n","e","t","w","o","r","k","i","n","g">>) @@
  ("volunteering" :> <<"v","o","l","u","n","t","e","e","r","i","n","g">>)

STREAK_KEYWORDS ==
  <<
    <<"s","t","r","e","a","k">>, <<"h","o","w"," ","m","a","n","y"," ","d","a","y","s">>,
    <<"c","o","n","s","e","c","u","t","i","v","e">>, <<"i","n"," ","a"," ","r","o","w">>,
    <<"d","a","i","l","y"," ","s","t","r","e","a","k">>
  >>

PROGRESS_KEYWORDS ==
  <<
    <<"h","o","w"," ","a","m"," ","i"," ","d","o","i","n","g">>,
    <<"w","e","e","k","l","y"," ","p","r","o","g","r","e","s","s">>,
    <<"t","h","i","s"," ","w","e","e","k">>, <<"m","y"," ","p","r","o","g","r","e","s","s">>,
    <<"p","r","o","g","r","e","s","s"," ","r","e","p","o","r","t">>
  >>

DASHBOARD_KEYWORDS ==
  <<
    <<"p","r","o","g","r","e","s","s">>, <<"d","a","s","h","b","o","a","r","d">>,
    <<"s","t","a","t","s">>, <<"a","n","a","l","y","t","i","c","s">>,
    <<"h","o","w"," ","a","m"," ","i"," ","d","o","i","n","g">>,
    <<"s","h","o","w"," ","m","y">>, <<"r","e","p","o","r","t">>
  >>

CONFIRM_WORDS ==
  <<
    <<"y","e","s">>, <<"c","o","n","f","i","r","m">>, <<"c","o","r","r","e","c","t">>,
    <<"t","h","a","t","'","s"," ","r","i","g","h","t">>, <<"y","e","p">>
  >>

CANCEL_WORDS ==
  <<
    <<"n","o">>, <<"c","a","n","c","e","l">>, <<"w","r","o","n","g">>,
    <<"n","o","t"," ","c","o","r","r","e","c","t">>, <<"n","o","p","e">>
  >>

HELP_WORDS ==
  <<
    <<"h","e","l","p">>, <<"h","o","w"," ","t","o"," ","u","s","e">>,
    <<"i","n","s","t","r","u","c","t","i","o","n","s">>,
    <<"w","h","a","t"," ","c","a","n"," ","i"," ","s","a","y">>
  >>

EXPORT_WORDS ==
  <<
    <<"e","x","p","o","r","t">>, <<"d","o","w","n","l","o","a","d">>,
    <<"b","a","c","k","u","p">>, <<"s","a","v","e"," ","d","a","t","a">>
  >>

RECURSIVE Flatten(_, _)
Flatten(cats, k) ==
  IF k > Len(cats) THEN <<>> ELSE cats[k].habits \o Flatten(cats, k + 1)

\* COMMON_HABITS: the categories' habits, in the order of the dictionary
COMMON_HABITS == Flatten(HABIT_CATEGORIES, 1)

HabitNames == {COMMON_HABITS[i] : i \in 1..Len(COMMON_HABITS)}

DEFAULT_GOALS ==
  ("workout" :> 5) @@ ("running" :> 4) @@ ("yoga" :> 6) @@ ("gym" :> 4) @@
  ("reading" :> 7) @@ ("meditating" :> 7) @@ ("journaling" :> 7) @@
  ("coding" :> 5) @@ ("learning" :> 5) @@ ("studying" :> 5) @@
  ("drinking water" :> 7) @@ ("sleep early" :> 7) @@ ("healthy eating" :> 7)

OTHER_CATEGORY == "Other"

\* utils/helpers.py get_habit_category
get_habit_category(habit) ==
  IF \E k \in 1..Len(HABIT_CATEGORIES) :
       \E j \in 1..Len(HABIT_CATEGORIES[k].habits) : HABIT_CATEGORIES[k].habits[j] = habit
  THEN LET k == CHOOSE k \in 1..Len(HABIT_CATEGORIES) :
                  /\ \E j \in 1..Len(HABIT_CATEGORIES[k].habits) :
                        HABIT_CATEGORIES[k].habits[j] = habit
                  /\ \A m \in 1..(k - 1) :
                        \A j \in 1..Len(HABIT_CATEGORIES[m].habits) :
                           HABIT_CATEGORIES[m].habits[j] # habit
       IN HABIT_CATEGORIES[k].category
  ELSE OTHER_CATEGORY

----------------------------------------------------------------------------
(* Python str and re, on sequences of characters                           *)

LowerCase == {"a","b","c","d","e","f","g","h","i","j","k","l","m",
              "n","o","p","q","r","s","t","u","v","w","x","y","z"}
UpperCase == {"A","B","C","D","E","F","G","H","I","J","K","L","M",
              "N","O","P","Q","R","S","T","U","V","W","X","Y","Z"}
DigitChars == {"0","1","2","3","4","5","6","7","8","9"}
WordChars == LowerCase \cup DigitChars \cup {"_"}      \* \w, on lowercased text
SpaceChars == {" "}                                    \* \s

ToLower ==
  ("A" :> "a") @@ ("B" :> "b") @@ ("C" :> "c") @@ ("D" :> "d") @@ ("E" :> "e") @@
  ("F" :> "f") @@ ("G" :> "g") @@ ("H" :> "h") @@ ("I" :> "i") @@ ("J" :> "j") @@
  ("K" :> "k") @@ ("L" :> "l") @@ ("M" :> "m") @@ ("N" :> "n") @@ ("O" :> "o") @@
  ("P" :> "p") @@ ("Q" :> "q") @@ ("R" :> "r") @@ ("S" :> "s") @@ ("T" :> "t") @@
  ("U" :> "u") @@ ("V" :> "v") @@ ("W" :> "w") @@ ("X" :> "x") @@ ("Y" :> "y") @@
  ("Z" :> "z")

DigitValue ==
  ("0" :> 0) @@ ("1" :> 1) @@ ("2" :> 2) @@ ("3" :> 3) @@ ("4" :> 4) @@
  ("5" :> 5) @@ ("6" :> 6) @@ ("7" :> 7) @@ ("8" :> 8) @@ ("9" :> 9)

\* str.lower()
RECURSIVE lower(_)
lower(s) ==
  IF s = <<>> THEN <<>>
  ELSE <<IF Head(s) \in UpperCase THEN ToLower[Head(s)] ELSE Head(s)>> \o lower(Tail(s))

\* str.strip()
strip(s) ==
  LET inked == {i \in 1..Len(s) : s[i] \notin SpaceChars}
  IN IF inked = {} THEN <<>>
     ELSE LET a == CHOOSE i \in inked : \A j \in inked : i <= j
              b == CHOOSE i \in inked : \A j \in inked : j <= i
          IN SubSeq(s, a, b)

\* s.startswith(k) at position i (1-based)
LitAt(s, i, k) == i + Len(k) - 1 <= Len(s) /\ \A j \in 1..Len(k) : s[i + j - 1] = k[j]

\* k in s
Contains(s, k) == \E i \in 1..(Len(s) - Len(k) + 1) : LitAt(s, i, k)

\* any(keyword in s for keyword in keywords)
AnyIn(keywords, s) == \E j \in 1..Len(keywords) : Contains(s, keywords[j])

\* int(digits)
RECURSIVE ToInt(_)
ToInt(d) == IF d = <<>> THEN 0 ELSE 10 * ToInt(SubSeq(d, 1, Len(d) - 1)) + DigitValue[d[Len(d)]]

\* the position after the longest run of characters of `class` that starts at i
RECURSIVE RunEnd(_, _, _)
RunEnd(s, i, class) ==
  IF i <= Len(s) /\ s[i] \in class THEN RunEnd(s, i + 1, class) ELSE i

(***************************************************************************)
(* The regular expressions of the sources are sequences of these elements: *)
(*   [e |-> "lit", s]     the literal s                                     *)
(*   [e |-> "opt", s]     (?:s)? or s?  : s is tried first, then nothing    *)
(*   [e |-> "alt", ss]    (?:a|b|c)     : the alternatives in order         *)
(*   [e |-> "word"]       (\w+), a group                                    *)
(*   [e |-> "digits"]     (\d+), a group                                    *)
(*   [e |-> "spaces"]     \s*                                               *)
(* A + or * run is matched greedily only: in every pattern below the       *)
(* element after a run starts with a character outside the run's class, so *)
(* no shorter run can lead to a match.                                     *)
(***************************************************************************)
NoMatch == [ok |-> FALSE]

RECURSIVE MatchAt(_, _, _, _, _)
RECURSIVE MatchAlt(_, _, _, _, _, _)
MatchAt(pat, k, s, i, groups) ==
  IF k > Len(pat) THEN [ok |-> TRUE, end |-> i, groups |-> groups]
  ELSE LET el == pat[k] IN
    CASE el.e = "lit" ->
           IF LitAt(s, i, el.s) THEN MatchAt(pat, k + 1, s, i + Len(el.s), groups)
           ELSE NoMatch
      [] el.e = "opt" ->
           LET with == IF LitAt(s, i, el.s)
                       THEN MatchAt(pat, k + 1, s, i + Len(el.s), groups)
                       ELSE NoMatch
           IN IF with.ok THEN with ELSE MatchAt(pat, k + 1, s, i, groups)
      [] el.e = "alt" -> MatchAlt(pat, k, 1, s, i, groups)
      [] el.e = "word" ->
           LET j == RunEnd(s, i, WordChars)
           IN IF j > i THEN MatchAt(pat, k + 1, s, j, Append(groups, SubSeq(s, i, j - 1)))
              ELSE NoMatch
      [] el.e = "digits" ->
           LET j == RunEnd(s, i, DigitChars)
           IN IF j > i THEN MatchAt(pat, k + 1, s, j, Append(groups, SubSeq(s, i, j - 1)))
              ELSE NoMatch
      [] el.e = "spaces" -> MatchAt(pat, k + 1, s, RunEnd(s, i, SpaceChars), groups)

MatchAlt(pat, k, a, s, i, groups) ==
  IF a > Len(pat[k].ss) THEN NoMatch
  ELSE LET lit == pat[k].ss[a]
           with == IF LitAt(s, i, lit)
                   THEN MatchAt(pat, k + 1, s, i + Len(lit), groups)
                   ELSE NoMatch
       IN IF with.ok THEN with ELSE MatchAlt(pat, k, a + 1, s, i, groups)

\* re.search(pat, s): the match at the leftmost position that has one
re_search(pat, s) ==
  LET starts == {i \in 1..(Len(s) + 1) : MatchAt(pat, 1, s, i, <<>>).ok}
  IN IF starts = {} THEN NoMatch
     ELSE LET i == CHOOSE i \in starts : \A j \in starts : i <= j
              m == MatchAt(pat, 1, s, i, <<>>)
          IN [ok |-> TRUE, start |-> i, end |-> m.end, groups |-> m.groups]

\* utils/constants.py GOAL_PATTERNS
GOAL_PATTERNS ==
  <<
    \* set goal (?:for )?(\w+) (\d+) times? (?:per|a|each) week
    <<[e |-> "lit", s |-> <<"s","e","t"," ","g","o","a","l"," ">>],
      [e |-> "opt", s |-> <<"f","o","r"," ">>],
      [e |-> "word"],
      [e |-> "lit", s |-> <<" ">>],
      [e |-> "digits"],
      [e |-> "lit", s |-> <<" ","t","i","m","e">>],
      [e |-> "opt", s |-> <<"s">>],
      [e |-> "lit", s |-> <<" ">>],
      [e |-> "alt", ss |-> << <<"p","e","r">>, <<"a">>, <<"e","a","c","h">> >>],
      [e |-> "lit", s |-> <<" ","w","e","e","k">>]>>,
    \* i want to do (\w+) (\d+) times? (?:per|a|each) week
    <<[e |-> "lit", s |-> <<"i"," ","w","a","n","t"," ","t","o"," ","d","o"," ">>],
      [e |-> "word"],
      [e |-> "lit", s |-> <<" ">>],
      [e |-> "digits"],
      [e |-> "lit", s |-> <<" ","t","i","m","e">>],
      [e |-> "opt", s |-> <<"s">>],
      [e |-> "lit", s |-> <<" ">>],
      [e |-> "alt", ss |-> << <<"p","e","r">>, <<"a">>, <<"e","a","c","h">> >>],
      [e |-> "lit", s |-> <<" ","w","e","e","k">>]>>,
    \* goal for (\w+) is (\d+) (?:per|a|each) week
    <<[e |-> "lit", s |-> <<"g","o","a","l"," ","f","o","r"," ">>],
      [e |-> "word"],
      [e |-> "lit", s |-> <<" ","i","s"," ">>],
      [e |-> "digits"],
      [e |-> "lit", s |-> <<" ">>],
      [e |-> "alt", ss |-> << <<"p","e","r">>, <<"a">>, <<"e","a","c","h">> >>],
      [e |-> "lit", s |-> <<" ","w","e","e","k">>]>>,
    \* (\w+) goal (\d+) times? weekly
    <<[e |-> "word"],
      [e |-> "lit", s |-> <<" ","g","o","a","l"," ">>],
      [e |-> "digits"],
      [e |-> "lit", s |-> <<" ","t","i","m","e">>],
      [e |-> "opt", s |-> <<"s">>],
      [e |-> "lit", s |-> <<" ","w","e","e","k","l","y">>]>>,
    \* target (\w+) (\d+) times? (?:per|a) week
    <<[e |-> "lit", s |-> <<"t","a","r","g","e","t"," ">>],
      [e |-> "word"],
      [e |-> "lit", s |-> <<" ">>],
      [e |-> "digits"],
      [e |-> "lit", s |-> <<" ","t","i","m","e">>],
      [e |-> "opt", s |-> <<"s">>],
      [e |-> "lit", s |-> <<" ">>],
      [e |-> "alt", ss |-> << <<"p","e","r">>, <<"a">> >>],
      [e |-> "lit", s |-> <<" ","w","e","e","k">>]>>
  >>

\* (\d+)\s*(hour|minute|min)s?   (ai_service.py, _simple_parse)
DURATION_PATTERN ==
  <<[e |-> "digits"],
    [e |-> "spaces"],
    [e |-> "alt", ss |-> << <<"h","o","u","r">>, <<"m","i","n","u","t","e">>, <<"m","i","n">> >>],
    [e |-> "opt", s |-> <<"s">>]>>

\* \d+   (ai_service.py, _simple_parse)
NUMBER_PATTERN == <<[e |-> "digits"]>>
W_add == <<"a","d","d">>
W_create == <<"c","r","e","a","t","e">>
W_delete == <<"d","e","l","e","t","e">>
W_remove == <<"r","e","m","o","v","e">>
W_goal == <<"g","o","a","l">>

----------------------------------------------------------------------------
(* models/habit.py VoiceCommand, services/ai_service.py AIService          *)

COMMAND_FIELDS == {"intent", "habits", "duration", "target"}

\* VoiceCommand(**data) raises TypeError unless data gives intent and habits and
\* nothing but the four fields
VoiceCommandAccepts(data) ==
  /\ DOMAIN data \subseteq COMMAND_FIELDS
  /\ {"intent", "habits"} \subseteq DOMAIN data

VoiceCommand(data) ==
  [intent   |-> data.intent,
   habits   |-> data.habits,
   duration |-> IF "duration" \in DOMAIN data THEN data.duration ELSE <<>>,
   target   |-> IF "target" \in DOMAIN data THEN data.target ELSE 0]

NoHabitsCommand(intent) ==
  [intent |-> intent, habits |-> <<>>, duration |-> <<>>, target |-> 0]

\* the habits of the taxonomy that the text contains, in the taxonomy's order
named_habits(text_lower) ==
  SelectSeq(COMMON_HABITS, LAMBDA habit : Contains(text_lower, Spelling[habit]))

\* duration_match.group(0), or ""
matched_text(text_lower, duration_match) ==
  IF duration_match.ok
  THEN SubSeq(text_lower, duration_match.start, duration_match.end - 1)
  ELSE <<>>

\* int(numbers[0]) if numbers else 7
first_number(numbers) == IF numbers.ok THEN ToInt(numbers.groups[1]) ELSE 7

\* a simple parse that looks for "delete" and "remove" before "add" and "create"
simple_command_delete_first(text_lower, habits, duration) ==
  LET rest(intent, target) ==
        [intent |-> intent, habits |-> habits, duration |-> duration, target |-> target]
  IN IF AnyIn(DASHBOARD_KEYWORDS, text_lower) THEN NoHabitsCommand("dashboard")
     ELSE IF Contains(text_lower, W_delete) \/ Contains(text_lower, W_remove)
          THEN rest("delete", 0)
     ELSE IF Contains(text_lower, W_add) \/ Contains(text_lower, W_create)
          THEN rest("add", 0)
     ELSE IF Contains(text_lower, W_goal)
             /\ \E i \in 1..Len(text_lower) : text_lower[i] \in DigitChars
          THEN rest("set_goal", first_number(re_search(NUMBER_PATTERN, text_lower)))
     ELSE rest("log", 0)

\* the intent rules of _simple_parse, in order
simple_command(text_lower, habits, duration) ==
  LET rest(intent, target) ==
        [intent |-> intent, habits |-> habits, duration |-> duration, target |-> target]
  IN IF AnyIn(DASHBOARD_KEYWORDS, text_lower) THEN NoHabitsCommand("dashboard")
     ELSE IF Contains(text_lower, W_add) \/ Contains(text_lower, W_create)
          THEN rest("add", 0)
     ELSE IF Contains(text_lower, W_delete) \/ Contains(text_lower, W_remove)
          THEN rest("delete", 0)
     ELSE IF Contains(text_lower, W_goal)
             /\ \E i \in 1..Len(text_lower) : text_lower[i] \in DigitChars
          THEN rest("set_goal", first_number(re_search(NUMBER_PATTERN, text_lower)))
     ELSE rest("log", 0)

simple_parse_lower(text_lower) ==
  simple_command(text_lower, named_habits(text_lower),
                 matched_text(text_lower, re_search(DURATION_PATTERN, text_lower)))

\* AIService._simple_parse
simple_parse(text) == simple_parse_lower(lower(text))

(***************************************************************************)
(* The completion API either raises (no network, no key, timeout) or       *)
(* returns a text.  A text is a sequence of pieces: a code fence tagged    *)
(* json, a bare code fence, prose, or the text of one JSON value.  A JSON  *)
(* object is a function from its keys, and its "habits" value is tagged    *)
(* with its kind.                                                          *)
(***************************************************************************)
IsFence(piece) == piece.tok \in {"fence_json", "fence"}

Min(S) == CHOOSE i \in S : \A j \in S : i <= j

\* split("```")[0] of what follows the json fence
until_fence(after, stop) ==
  IF stop = {} THEN after ELSE SubSeq(after, 1, Min(stop) - 1)

\* split("```json")[1].split("```")[0], when the text has a json fence
json_block(response_text, marks) ==
  IF marks = {} THEN response_text
  ELSE until_fence(SubSeq(response_text, Min(marks) + 1, Len(response_text)),
                   {i \in 1..(Len(response_text) - Min(marks)) :
                      IsFence(response_text[Min(marks) + i])})

\* .replace("```", "") when the text starts with a fence
strip_fences(response_text) ==
  IF response_text # <<>> /\ IsFence(response_text[1])
  THEN SelectSeq(response_text, LAMBDA piece : piece.tok # "fence")
  ELSE response_text

\* the text between the first json fence and the next fence, if there is a json
\* fence; then, if the text starts with a fence, the text without its bare fences
clean_response(response_text) ==
  strip_fences(json_block(response_text,
                          {i \in 1..Len(response_text) : response_text[i].tok = "fence_json"}))

\* json.loads succeeds on the text of exactly one JSON value
json_loads_ok(response_text) == Len(response_text) = 1 /\ response_text[1].tok = "json"

\* h in COMMON_HABITS, and the habit that h spells
InTaxonomy(h) == \E n \in HabitNames : Spelling[n] = h
TaxonomyName(h) == CHOOSE n \in HabitNames : Spelling[n] = h

\* [h.lower().strip() for h in data["habits"] if h.strip()], then
\* [h for h in ... if h in COMMON_HABITS]
RECURSIVE NamesOf(_)
NamesOf(items) ==
  IF items = <<>> THEN <<>>
  ELSE (IF strip(items[1].s) # <<>> /\ InTaxonomy(strip(lower(items[1].s)))
        THEN <<TaxonomyName(strip(lower(items[1].s)))>> ELSE <<>>) \o NamesOf(Tail(items))

\* the items a comprehension over data["habits"] visits; iterating a JSON string
\* visits its characters
HabitItems(value) ==
  IF value.kind = "str" THEN [i \in 1..Len(value.s) |-> [kind |-> "str", s |-> <<value.s[i]>>]]
  ELSE value.items

\* the comprehension raises on null and numbers, and on an item that has no strip()
HabitsFilterRaises(value) ==
  \/ value.kind \notin {"list", "str"}
  \/ \E i \in 1..Len(HabitItems(value)) : HabitItems(value)[i].kind # "str"

\* data.setdefault("target", 0); data.setdefault("duration", "")
with_defaults(data) == (data @@ ("target" :> 0)) @@ ("duration" :> <<>>)

\* if "habits" in data: the habits are cleaned and filtered
filter_habits(data) ==
  IF "habits" \in DOMAIN data
  THEN [data EXCEPT !.habits = NamesOf(HabitItems(data.habits))]
  ELSE data

parse_data(text, data) ==
  IF "habits" \in DOMAIN data /\ HabitsFilterRaises(data.habits) THEN simple_parse(text)
  ELSE with_defaults(filter_habits(data))

\* "habits" in data, data["habits"] and data.setdefault need a dict
parse_value(text, value) ==
  IF value.kind # "object" THEN simple_parse(text) ELSE parse_data(text, value.obj)

\* an interpreter that answers a default command when the reply is not JSON
parse_cleaned_default(text, cleaned) ==
  IF ~json_loads_ok(cleaned) THEN with_defaults(NoHabitsCommand("log"))
  ELSE parse_value(text, cleaned[1].value)

parse_cleaned(text, cleaned) ==
  IF ~json_loads_ok(cleaned) THEN simple_parse(text)
  ELSE parse_value(text, cleaned[1].value)

\* AIService._call_openai_parse
call_openai_parse(text, response) ==
  IF response.status = "raise" THEN simple_parse(text)
  ELSE parse_cleaned(text, clean_response(response.text))

\* match.groups() names a habit of the taxonomy
names_habit(match) == match.ok /\ InTaxonomy(match.groups[1])

\* the goal patterns, in order: the first whose match names a taxonomy habit
GoalHit(text_lower, k) == names_habit(re_search(GOAL_PATTERNS[k], text_lower))

goal_command(match) ==
  [intent   |-> "set_goal",
   habits   |-> <<TaxonomyName(match.groups[1])>>,
   target   |-> ToInt(match.groups[2]),
   duration |-> <<>>]

\* the streak query names the first habit of the taxonomy that the text contains
streak_command(named) ==
  IF named # <<>> THEN [NoHabitsCommand("streak_query") EXCEPT !.habits = <<named[1]>>]
  ELSE NoHabitsCommand("streak_query")

\* a classifier that looks for the dashboard keywords before the progress keywords
keyword_command_dashboard_first(text, response, text_lower) ==
  IF AnyIn(STREAK_KEYWORDS, text_lower) THEN streak_command(named_habits(text_lower))
  ELSE IF AnyIn(DASHBOARD_KEYWORDS, text_lower) THEN NoHabitsCommand("dashboard")
  ELSE IF AnyIn(PROGRESS_KEYWORDS, text_lower) THEN NoHabitsCommand("progress_query")
  ELSE IF AnyIn(CONFIRM_WORDS, text_lower) THEN NoHabitsCommand("confirm")
  ELSE IF AnyIn(CANCEL_WORDS, text_lower) THEN NoHabitsCommand("cancel")
  ELSE IF AnyIn(HELP_WORDS, text_lower) THEN NoHabitsCommand("help")
  ELSE IF AnyIn(EXPORT_WORDS, text_lower) THEN NoHabitsCommand("export")
  ELSE call_openai_parse(text, response)

\* _enhanced_voice_parsing from the streak keywords on
keyword_command(text, response, text_lower) ==
  IF AnyIn(STREAK_KEYWORDS, text_lower) THEN streak_command(named_habits(text_lower))
  ELSE IF AnyIn(PROGRESS_KEYWORDS, text_lower) THEN NoHabitsCommand("progress_query")
  ELSE IF AnyIn(DASHBOARD_KEYWORDS, text_lower) THEN NoHabitsCommand("dashboard")
  ELSE IF AnyIn(CONFIRM_WORDS, text_lower) THEN NoHabitsCommand("confirm")
  ELSE IF AnyIn(CANCEL_WORDS, text_lower) THEN NoHabitsCommand("cancel")
  ELSE IF AnyIn(HELP_WORDS, text_lower) THEN NoHabitsCommand("help")
  ELSE IF AnyIn(EXPORT_WORDS, text_lower) THEN NoHabitsCommand("export")
  ELSE call_openai_parse(text, response)

goal_or_keyword(text, response, text_lower, hits) ==
  IF hits # {} THEN goal_command(re_search(GOAL_PATTERNS[Min(hits)], text_lower))
  ELSE keyword_command(text, response, text_lower)

enhanced_lower(text, response, text_lower) ==
  goal_or_keyword(text, response, text_lower,
                  {k \in 1..Len(GOAL_PATTERNS) : GoalHit(text_lower, k)})

\* AIService._enhanced_voice_parsing
enhanced_voice_parsing(text, response) ==
  enhanced_lower(text, response, strip(lower(text)))

\* VoiceCommand(**parsed_data), or the simple parse when that raises
to_command(text, parsed_data) ==
  IF VoiceCommandAccepts(parsed_data) THEN VoiceCommand(parsed_data)
  ELSE VoiceCommand(simple_parse(text))

\* AIService.parse_voice_command
parse_voice_command(text, response) ==
  to_command(text, enhanced_voice_parsing(text, response))

----------------------------------------------------------------------------
(* services/analytics_service.py AnalyticsService                          *)

\* An event's time is "%Y-%m-%d %H:%M:%S" local time: whole seconds.  The first ten
\* characters, parsed as a date, are its calendar day.
SECONDS_PER_DAY == 86400

DateOf(time) == time \div SECONDS_PER_DAY

\* [log for log in habit_logs if log.get("type") == "log"]
LoggedHabits(logs) == SelectSeq(logs, LAMBDA log : log.type = "log")

\* sorted(set(habit_dates)) for one habit
HabitDates(logs, habit) ==
  {DateOf(LoggedHabits(logs)[i].time) :
     i \in {j \in 1..Len(LoggedHabits(logs)) : LoggedHabits(logs)[j].habit = habit}}

RECURSIVE SortedAsc(_)
SortedAsc(S) ==
  IF S = {} THEN <<>>
  ELSE LET m == CHOOSE x \in S : \A y \in S : x <= y
       IN <<m>> \o SortedAsc(S \ {m})

RECURSIVE Reversed(_)
Reversed(s) == IF s = <<>> THEN <<>> ELSE Append(Reversed(Tail(s)), Head(s))

\* a walk without the day of grace: a streak that does not start today is none
RECURSIVE StreakWalkNoGrace(_, _, _, _)
StreakWalkNoGrace(habit_dates, k, streak, current_date) ==
  IF k > Len(habit_dates) THEN streak
  ELSE IF habit_dates[k] = current_date
       THEN StreakWalkNoGrace(habit_dates, k + 1, streak + 1, current_date - 1)
  ELSE IF habit_dates[k] < current_date THEN streak
  ELSE StreakWalkNoGrace(habit_dates, k + 1, streak, current_date)

\* the loop of calculate_streaks over the dates of one habit, newest first
RECURSIVE StreakWalk(_, _, _, _)
StreakWalk(habit_dates, k, streak, current_date) ==
  IF k > Len(habit_dates) THEN streak
  ELSE IF habit_dates[k] = current_date
       THEN StreakWalk(habit_dates, k + 1, streak + 1, current_date - 1)
  ELSE IF habit_dates[k] < current_date
       THEN IF current_date - habit_dates[k] = 1 /\ streak = 0
            THEN StreakWalk(habit_dates, k + 1, 1, habit_dates[k] - 1)
            ELSE streak
  ELSE StreakWalk(habit_dates, k + 1, streak, current_date)

UniqueHabits(logs) == {LoggedHabits(logs)[i].habit : i \in 1..Len(LoggedHabits(logs))}

\* AnalyticsService.calculate_streaks, with date.today() = day
calculate_streaks(logs, day) ==
  LET streak_of(habit) == StreakWalk(Reversed(SortedAsc(HabitDates(logs, habit))), 1, 0, day)
  IN [habit \in {h \in UniqueHabits(logs) : streak_of(h) > 0} |-> streak_of(habit)]

\* a scan that takes every later date for the next day
RECURSIVE LongestScanAnyGap(_, _, _, _)
LongestScanAnyGap(habit_dates, i, current_streak, max_streak) ==
  IF i > Len(habit_dates) THEN max_streak
  ELSE LongestScanAnyGap(habit_dates, i + 1, current_streak + 1,
                         IF current_streak + 1 > max_streak THEN current_streak + 1
                         ELSE max_streak)

\* a scan whose running streak starts again at every date
RECURSIVE LongestScanRestarts(_, _, _, _)
LongestScanRestarts(habit_dates, i, current_streak, max_streak) ==
  IF i > Len(habit_dates) THEN max_streak
  ELSE LongestScanRestarts(habit_dates, i + 1, 1, max_streak)

\* the loop of get_longest_streaks over the dates of one habit, oldest first
RECURSIVE LongestScan(_, _, _, _)
LongestScan(habit_dates, i, current_streak, max_streak) ==
  IF i > Len(habit_dates) THEN max_streak
  ELSE IF habit_dates[i] - habit_dates[i - 1] = 1
       THEN LongestScan(habit_dates, i + 1, current_streak + 1,
                        IF current_streak + 1 > max_streak THEN current_streak + 1
                        ELSE max_streak)
  ELSE LongestScan(habit_dates, i + 1, 1, max_streak)

\* AnalyticsService.get_longest_streaks
get_longest_streaks(logs) ==
  [habit \in {h \in UniqueHabits(logs) : HabitDates(logs, h) # {}} |->
     LongestScan(SortedAsc(HabitDates(logs, habit)), 2, 1, 1)]

\* date.weekday(): Monday is 0.  Day 0 of the model's calendar is a Monday.
weekday(day) == day % 7

\* today - timedelta(days=days_since_monday), at 00:00:00: in seconds
week_start(day) == (day - weekday(day)) * SECONDS_PER_DAY

\* a count that takes the events of every week
weekly_count_any_week(logs, start, habit) ==
  Len(SelectSeq(logs, LAMBDA log : log.type = "log" /\ log.habit = habit))

\* weekly_counts.get(habit, 0): the log events of habit at or after the week's start
weekly_count(logs, start, habit) ==
  Len(SelectSeq(logs, LAMBDA log : log.type = "log" /\ log.time >= start /\ log.habit = habit))

\* A percentage is a float in the code; here it is the exact fraction num / den,
\* den > 0, so that the division is computed and its rounding is left out.
Fraction(num, den) == [num |-> num, den |-> den]
FractionLeq(a, b) == a.num * b.den <= b.num * a.den
FractionMin(a, b) == IF FractionLeq(a, b) THEN a ELSE b

\* a percentage without the cap at 100
percentage_uncapped(completed, target) ==
  IF target > 0 THEN Fraction(completed * 100, target) ELSE Fraction(0, 1)

\* min(100, (completed / target) * 100) if target > 0 else 0
percentage(completed, target) ==
  IF target > 0 THEN FractionMin(Fraction(100, 1), Fraction(completed * 100, target))
  ELSE Fraction(0, 1)

\* 'completed' if completed >= target else 'in_progress' if completed > 0 else 'not_started'
progress_status(completed, target) ==
  IF completed >= target THEN "completed"
  ELSE IF completed > 0 THEN "in_progress"
  ELSE "not_started"

\* progress[habit] for one goal
progress_entry(completed, target) ==
  [completed |-> completed, target |-> target,
   percentage |-> percentage(completed, target),
   status |-> progress_status(completed, target)]

\* AnalyticsService.check_weekly_progress, with datetime.now() on the day given
check_weekly_progress(logs, habit_goals, day) ==
  IF DOMAIN habit_goals = {} THEN <<>>
  ELSE [habit \in DOMAIN habit_goals |->
          progress_entry(weekly_count(logs, week_start(day), habit),
                         habit_goals[habit].target_per_week)]

----------------------------------------------------------------------------
(* The application: app.py is a script that Streamlit runs from the top on *)
(* every widget event of the session's page.  st.session_state persists    *)
(* between runs; st.button(key) is True in the one run that the click on   *)
(* that button triggered, and only if the run reaches the call.            *)

NoAction == [none |-> TRUE]              \* pending_action = None
IsPending(action) == action # NoAction

SESSION_TIMEOUT == 300
AUTO_SAVE_INTERVAL == 300

\* services/auth_service.py: a missing or unreadable file loads as empty
load_user_data(w, username) == w.user_files[username]
load_user_goals(w, username) == w.goal_files[username]

\* AuthService.save_user_data: the write, or False when it raises
save_user_data(w, username, data) ==
  IF w.storage_ok THEN [w EXCEPT !.user_files[username] = data]
  ELSE [w EXCEPT !.out.save_failed = TRUE]

\* AuthService.save_user_goals
save_user_goals(w, username, goals) ==
  IF w.storage_ok THEN [w EXCEPT !.goal_files[username] = goals]
  ELSE [w EXCEPT !.out.save_failed = TRUE]

Say(w, message) == [w EXCEPT !.out.messages = @ \cup {message}]
Render(w, button) == [w EXCEPT !.out.buttons = @ \cup {button}]

\* the buttons of the page, by key
Button(key) == [key |-> key]
SuggestButton(habit) == [key |-> "suggest", habit |-> habit]

\* dict[habit] = goal and del dict[habit]
Upsert(goals, habit, goal) ==
  [h \in DOMAIN goals \cup {habit} |-> IF h = habit THEN goal ELSE goals[h]]
Without(goals, habit) == [h \in DOMAIN goals \ {habit} |-> goals[h]]

\* auth_service.save_user_goals(user, st.session_state.habit_goals)
save_session_goals(w, user) == save_user_goals(w, user, w.ss.habit_goals)

\* a goal setter that files every habit under "Other"
set_habit_goal_uncategorised(w, user, habit, target_per_week) ==
  save_session_goals(
    [w EXCEPT !.ss.habit_goals =
       Upsert(@, habit, [target_per_week |-> target_per_week,
                         created |-> w.now,
                         category |-> "Other"])],
    user)

\* HabitService.set_habit_goal
set_habit_goal(w, user, habit, target_per_week) ==
  save_session_goals(
    [w EXCEPT !.ss.habit_goals =
       Upsert(@, habit, [target_per_week |-> target_per_week,
                         created |-> w.now,
                         category |-> get_habit_category(habit)])],
    user)

\* f"Completed {habit}" + f" for {duration}"
CompletedText(habit, duration) ==
  IF duration # <<>> THEN <<"Completed ", habit, " for ", duration>>
  ELSE <<"Completed ", habit>>

HabitsIn(logs) == {logs[i].habit : i \in 1..Len(logs)}

\* a log that puts the new event at the head of the list
log_habit_first(w, habit, duration) ==
  Say([w EXCEPT !.ss.habit_logs =
         <<[habit |-> habit, action |-> CompletedText(habit, duration),
            time |-> w.now, type |-> "log", duration |-> duration]>> \o @],
      "logged")

\* _execute_confirmed_action, action_type "log"
log_habit(w, habit, duration) ==
  Say([w EXCEPT !.ss.habit_logs =
         Append(@, [habit |-> habit, action |-> CompletedText(habit, duration),
                    time |-> w.now, type |-> "log", duration |-> duration])],
      "logged")

\* a default goal that is set only for a habit without a goal
add_default_goal_unless_set(w, habit, user) ==
  IF habit \in DOMAIN DEFAULT_GOALS /\ habit \notin DOMAIN w.ss.habit_goals
  THEN Say(set_habit_goal(w, user, habit, DEFAULT_GOALS[habit]), "default_goal")
  ELSE w

\* if habit in DEFAULT_GOALS: the default goal is set
add_default_goal(w, habit, user) ==
  IF habit \in DOMAIN DEFAULT_GOALS
  THEN Say(set_habit_goal(w, user, habit, DEFAULT_GOALS[habit]), "default_goal")
  ELSE w

\* an add that does not look for earlier events of the habit
add_habit_again(w, habit, user) ==
  add_default_goal(
    Say([w EXCEPT !.ss.habit_logs =
           Append(@, [habit |-> habit, action |-> <<"Added habit: ", habit>>,
                      time |-> w.now, type |-> "add"])],
        "added"),
    habit, user)

\* _execute_confirmed_action, action_type "add"
add_habit(w, habit, user) ==
  IF habit \notin HabitsIn(w.ss.habit_logs)
  THEN add_default_goal(
         Say([w EXCEPT !.ss.habit_logs =
                Append(@, [habit |-> habit, action |-> <<"Added habit: ", habit>>,
                           time |-> w.now, type |-> "add"])],
             "added"),
         habit, user)
  ELSE Say(w, "already_exists")

\* the goal of a deleted habit is removed and the goals are saved
delete_goal(w, habit, user) ==
  IF habit \in DOMAIN w.ss.habit_goals
  THEN save_session_goals([w EXCEPT !.ss.habit_goals = Without(@, habit)], user)
  ELSE w

\* _execute_confirmed_action, action_type "delete"
delete_habit(w, habit, user) ==
  IF \E i \in 1..Len(w.ss.habit_logs) : w.ss.habit_logs[i].habit = habit
  THEN delete_goal(
         Say([w EXCEPT !.ss.habit_logs = SelectSeq(@, LAMBDA log : log.habit # habit)],
             "deleted"),
         habit, user)
  ELSE Say(w, "no_entries")

apply_action(w, action) ==
  CASE action.action_type = "log" -> log_habit(w, action.habit, action.duration)
    [] action.action_type = "add" -> add_habit(w, action.habit, action.user)
    [] action.action_type = "delete" -> delete_habit(w, action.habit, action.user)
    [] OTHER -> w

\* an end of the executor that does not save the data
finish_action_unsaved(w, user) ==
  [w EXCEPT !.ss.pending_action = NoAction, !.out.executed = TRUE, !.halt = "rerun"]

\* the data is saved, the pending action is popped, st.rerun()
finish_action(w, user) ==
  [save_user_data(w, user, w.ss.habit_logs) EXCEPT
     !.ss.pending_action = NoAction, !.out.executed = TRUE, !.halt = "rerun"]

\* HabitService._execute_confirmed_action; it ends in st.rerun()
execute_confirmed_action(w) ==
  IF ~IsPending(w.ss.pending_action) THEN w
  ELSE finish_action(apply_action(w, w.ss.pending_action), w.ss.pending_action.user)

\* f"Completed ...", f"Add {habit} to your habits", f"Delete {habit} and all its logs"
ActionText(habit, duration, action_type) ==
  CASE action_type = "log" -> CompletedText(habit, duration)
    [] action_type = "add" -> <<"Add ", habit, " to your habits">>
    [] action_type = "delete" -> <<"Delete ", habit, " and all its logs">>
    [] OTHER -> <<action_type, " ", habit>>

\* st.button(key): drawn by this run, and True if its click triggered this run
Clicked(w, key) == w.trigger.key = key

\* if st.button("Yes, do it!", key="confirm_yes"): self._execute_confirmed_action()
confirm_yes_button(w) ==
  IF Clicked(w, "confirm_yes") THEN execute_confirmed_action(w) ELSE w

\* if st.button("No, cancel", key="confirm_no"): pop, st.info, st.rerun()
confirm_no_button(w) ==
  IF w.halt = "run" /\ Clicked(w, "confirm_no")
  THEN [Say(w, "cancelled") EXCEPT !.ss.pending_action = NoAction, !.halt = "rerun"]
  ELSE w

\* the second column is reached unless the first ended the run
confirm_no_column(w) ==
  IF w.halt = "run" THEN confirm_no_button(Render(w, Button("confirm_no"))) ELSE w

\* a gate that applies the action as soon as it is asked for
handle_habit_confirmation_at_once(w, habit, duration, action_type, user) ==
  execute_confirmed_action(
    [w EXCEPT !.ss.pending_action =
       [habit |-> habit, duration |-> duration,
        action_text |-> ActionText(habit, duration, action_type),
        action_type |-> action_type, user |-> user, timestamp |-> w.now]])

\* HabitService._handle_habit_confirmation
handle_habit_confirmation(w, habit, duration, action_type, user) ==
  confirm_no_column(confirm_yes_button(Render(
    Say([w EXCEPT !.ss.pending_action =
           [habit |-> habit, duration |-> duration,
            action_text |-> ActionText(habit, duration, action_type),
            action_type |-> action_type, user |-> user, timestamp |-> w.now],
                  !.out.replaced = IsPending(w.ss.pending_action)],
        "confirm_action"),
    Button("confirm_yes"))))

\* a query that records a pending log of the habit asked about
query_habit_recording(w, habit, user) ==
  handle_habit_confirmation(w, habit, <<>>, "log", user)

\* HabitService._query_habit only displays
query_habit(w, habit, user) ==
  IF \E i \in 1..Len(w.ss.habit_logs) :
       Contains(Spelling[w.ss.habit_logs[i].habit], Spelling[habit])
  THEN Say(w, "query_found") ELSE Say(w, "query_none")

\* a handler that sets a goal without looking at the target
handle_habit_action_any_target(w, command_data, current_user) ==
  LET intent == command_data.intent
      habits == command_data.habits
      duration == command_data.duration
      target == command_data.target
  IN IF intent = "dashboard"
     THEN Say([w EXCEPT !.ss.show_dashboard = TRUE], "opening_dashboard")
     ELSE IF intent = "set_goal"
          THEN IF habits # <<>>
               THEN Say(set_habit_goal(w, current_user, habits[1], target), "goal_set")
               ELSE Say(w, "goal_warning")
     ELSE IF intent \in {"streak_query", "progress_query", "help", "export", "confirm", "cancel"}
          THEN w
     ELSE IF habits = <<>> THEN Say(w, "no_habits")
     ELSE IF intent \in {"add", "log", "delete"}
          THEN handle_habit_confirmation(w, habits[1], duration, intent, current_user)
     ELSE IF intent = "query" THEN query_habit(w, habits[1], current_user)
     ELSE w

\* HabitService.handle_habit_action
handle_habit_action(w, command_data, current_user) ==
  LET intent == command_data.intent
      habits == command_data.habits
      duration == command_data.duration
      target == command_data.target
  IN IF intent = "dashboard"
     THEN Say([w EXCEPT !.ss.show_dashboard = TRUE], "opening_dashboard")
     ELSE IF intent = "set_goal"
          THEN IF habits # <<>> /\ target > 0
               THEN Say(set_habit_goal(w, current_user, habits[1], target), "goal_set")
               ELSE Say(w, "goal_warning")
     ELSE IF intent \in {"streak_query", "progress_query", "help", "export", "confirm", "cancel"}
          THEN w
     ELSE IF habits = <<>> THEN Say(w, "no_habits")
     ELSE IF intent \in {"add", "log", "delete"}
          THEN handle_habit_confirmation(w, habits[1], duration, intent, current_user)
     ELSE IF intent = "query" THEN query_habit(w, habits[1], current_user)
     ELSE w

\* a timeout check that reports the timeout and keeps the pending action
check_session_timeout_keeps(w) ==
  IF IsPending(w.ss.pending_action)
     /\ w.now - w.ss.pending_action.timestamp > SESSION_TIMEOUT
  THEN Say(w, "timeout")
  ELSE w

\* utils/helpers.py check_session_timeout
check_session_timeout(w) ==
  IF IsPending(w.ss.pending_action)
     /\ w.now - w.ss.pending_action.timestamp > SESSION_TIMEOUT
  THEN Say([w EXCEPT !.ss.pending_action = NoAction], "timeout")
  ELSE w

----------------------------------------------------------------------------
(* Inputs: command texts and behaviours of the completion API              *)

\* "set goal for reading 5 times per week"
T_set_goal_reading ==
  <<"s","e","t"," ","g","o","a","l"," ","f","o","r"," ","r","e","a","d","i","n","g"," ","5"," ","t","i","m","e","s"," ","p","e","r"," ","w","e","e","k">>
\* "set goal for swimming 5 times per week"
T_set_goal_swimming ==
  <<"s","e","t"," ","g","o","a","l"," ","f","o","r"," ","s","w","i","m","m","i","n","g"," ","5"," ","t","i","m","e","s"," ","p","e","r"," ","w","e","e","k">>
\* "What's my reading streak?"
T_reading_streak ==
  <<"W","h","a","t","'","s"," ","m","y"," ","r","e","a","d","i","n","g"," ","s","t","r","e","a","k","?">>
\* "Show my progress"
T_show_my_progress ==
  <<"S","h","o","w"," ","m","y"," ","p","r","o","g","r","e","s","s">>
\* "Show my weekly progress"
T_show_weekly_progress ==
  <<"S","h","o","w"," ","m","y"," ","w","e","e","k","l","y"," ","p","r","o","g","r","e","s","s">>
\* "How am I doing?"
T_how_am_i_doing ==
  <<"H","o","w"," ","a","m"," ","I"," ","d","o","i","n","g","?">>
\* "Show dashboard"
T_show_dashboard ==
  <<"S","h","o","w"," ","d","a","s","h","b","o","a","r","d">>
\* "yes"
T_yes ==
  <<"y","e","s">>
\* "no"
T_no ==
  <<"n","o">>
\* "Help"
T_help ==
  <<"H","e","l","p">>
\* "Export my data"
T_export ==
  <<"E","x","p","o","r","t"," ","m","y"," ","d","a","t","a">>
\* "I did reading and workout"
T_did_reading_and_workout ==
  <<"I"," ","d","i","d"," ","r","e","a","d","i","n","g"," ","a","n","d"," ","w","o","r","k","o","u","t">>
\* "I did reading for 1 hour"
T_did_reading_1_hour ==
  <<"I"," ","d","i","d"," ","r","e","a","d","i","n","g"," ","f","o","r"," ","1"," ","h","o","u","r">>
\* "Add reading and workout"
T_add_reading_and_workout ==
  <<"A","d","d"," ","r","e","a","d","i","n","g"," ","a","n","d"," ","w","o","r","k","o","u","t">>
\* "Create gratitude habit"
T_create_gratitude ==
  <<"C","r","e","a","t","e"," ","g","r","a","t","i","t","u","d","e"," ","h","a","b","i","t">>
\* "Delete workout"
T_delete_workout ==
  <<"D","e","l","e","t","e"," ","w","o","r","k","o","u","t">>
\* "goal yoga 3"
T_goal_yoga_3 ==
  <<"g","o","a","l"," ","y","o","g","a"," ","3">>
\* "goal workout 3"
T_goal_workout_3 ==
  <<"g","o","a","l"," ","w","o","r","k","o","u","t"," ","3">>
\* "goal gym 0"
T_goal_gym_0 ==
  <<"g","o","a","l"," ","g","y","m"," ","0">>
\* "I did swimming"
T_did_swimming ==
  <<"I"," ","d","i","d"," ","s","w","i","m","m","i","n","g">>
\* "I did no phone"
T_did_no_phone ==
  <<"I"," ","d","i","d"," ","n","o"," ","p","h","o","n","e">>
\* " Finished yoga "
T_finished_yoga ==
  <<" ","F","i","n","i","s","h","e","d"," ","y","o","g","a"," ">>
\* "Remove yoga and add gym"
T_remove_and_add ==
  <<"R","e","m","o","v","e"," ","y","o","g","a"," ","a","n","d"," ","a","d","d"," ","g","y","m">>
\* "My goal is reading"
T_goal_is_reading ==
  <<"M","y"," ","g","o","a","l"," ","i","s"," ","r","e","a","d","i","n","g">>
\* "goal gym 12 or 3"
T_goal_gym_12_or_3 ==
  <<"g","o","a","l"," ","g","y","m"," ","1","2"," ","o","r"," ","3">>
\* ""
T_empty ==
  <<>>

Texts ==
  {T_set_goal_reading, T_set_goal_swimming, T_reading_streak, T_show_my_progress,
   T_show_weekly_progress, T_how_am_i_doing, T_show_dashboard, T_yes,
   T_no, T_help, T_export, T_did_reading_and_workout,
   T_did_reading_1_hour, T_add_reading_and_workout, T_create_gratitude, T_delete_workout,
   T_goal_yoga_3, T_goal_gym_0, T_did_swimming, T_did_no_phone,
   T_finished_yoga, T_remove_and_add, T_goal_is_reading, T_goal_gym_12_or_3, T_empty}

\* the call raises: no network, no key, timeout
R_down ==
  [status |-> "raise"]

\* prose, no JSON
R_not_json ==
  [status |-> "text",
   text |-> <<[tok |-> "prose"]>>]

\* {"intent": "log", "habits": ["reading"], "duration": "1 hour", "target": 0}
R_log_reading ==
  [status |-> "text",
   text |-> <<[tok |-> "json", value |-> [kind |-> "object", obj |-> [intent |-> "log", habits |-> [kind |-> "list", items |-> <<[kind |-> "str", s |-> <<"r","e","a","d","i","n","g">>]>>], duration |-> <<"1"," ","h","o","u","r">>, target |-> 0]]]>>]

\* in a json fence: {"intent": "add", "habits": [" Reading ", "swimming", "GYM"]}
R_fenced_add ==
  [status |-> "text",
   text |-> <<[tok |-> "fence_json"],
            [tok |-> "json", value |-> [kind |-> "object", obj |-> [intent |-> "add", habits |-> [kind |-> "list", items |-> <<[kind |-> "str", s |-> <<" ","R","e","a","d","i","n","g"," ">>], [kind |-> "str", s |-> <<"s","w","i","m","m","i","n","g">>], [kind |-> "str", s |-> <<"G","Y","M">>]>>]]]],
            [tok |-> "fence"]>>]

\* in a bare fence: {"intent": "delete", "habits": ["workout"], "target": 0}
R_bare_fence_delete ==
  [status |-> "text",
   text |-> <<[tok |-> "fence"],
            [tok |-> "json", value |-> [kind |-> "object", obj |-> [intent |-> "delete", habits |-> [kind |-> "list", items |-> <<[kind |-> "str", s |-> <<"w","o","r","k","o","u","t">>]>>], target |-> 0]]],
            [tok |-> "fence"]>>]

\* prose, then in a bare fence: {"intent": "add", "habits": ["yoga"]}
R_prose_then_fence ==
  [status |-> "text",
   text |-> <<[tok |-> "prose"],
            [tok |-> "fence"],
            [tok |-> "json", value |-> [kind |-> "object", obj |-> [intent |-> "add", habits |-> [kind |-> "list", items |-> <<[kind |-> "str", s |-> <<"y","o","g","a">>]>>]]]],
            [tok |-> "fence"]>>]

\* {"intent": "reminder", "habits": ["reading"]}
R_unknown_intent ==
  [status |-> "text",
   text |-> <<[tok |-> "json", value |-> [kind |-> "object", obj |-> [intent |-> "reminder", habits |-> [kind |-> "list", items |-> <<[kind |-> "str", s |-> <<"r","e","a","d","i","n","g">>]>>]]]]>>]

\* {"intent": "", "habits": []}
R_empty_intent ==
  [status |-> "text",
   text |-> <<[tok |-> "json", value |-> [kind |-> "object", obj |-> [intent |-> "", habits |-> [kind |-> "list", items |-> <<>>]]]]>>]

\* {"intent": null, "habits": ["gym"]}
R_null_intent ==
  [status |-> "text",
   text |-> <<[tok |-> "json", value |-> [kind |-> "object", obj |-> [intent |-> None, habits |-> [kind |-> "list", items |-> <<[kind |-> "str", s |-> <<"g","y","m">>]>>]]]]>>]

\* {"habits": ["gym"]}
R_no_intent ==
  [status |-> "text",
   text |-> <<[tok |-> "json", value |-> [kind |-> "object", obj |-> [habits |-> [kind |-> "list", items |-> <<[kind |-> "str", s |-> <<"g","y","m">>]>>]]]]>>]

\* {"intent": "log", "duration": "", "target": 0}
R_no_habits ==
  [status |-> "text",
   text |-> <<[tok |-> "json", value |-> [kind |-> "object", obj |-> [intent |-> "log", duration |-> <<>>, target |-> 0]]]>>]

\* {"intent": "log", "habits": ["gym"], "confidence": 1}
R_extra_field ==
  [status |-> "text",
   text |-> <<[tok |-> "json", value |-> [kind |-> "object", obj |-> [intent |-> "log", habits |-> [kind |-> "list", items |-> <<[kind |-> "str", s |-> <<"g","y","m">>]>>], confidence |-> 1]]]>>]

\* {"intent": "log", "habits": ["reading", "Reading"]}
R_duplicates ==
  [status |-> "text",
   text |-> <<[tok |-> "json", value |-> [kind |-> "object", obj |-> [intent |-> "log", habits |-> [kind |-> "list", items |-> <<[kind |-> "str", s |-> <<"r","e","a","d","i","n","g">>], [kind |-> "str", s |-> <<"R","e","a","d","i","n","g">>]>>]]]]>>]

\* {"intent": "log", "habits": "reading"}
R_habits_string ==
  [status |-> "text",
   text |-> <<[tok |-> "json", value |-> [kind |-> "object", obj |-> [intent |-> "log", habits |-> [kind |-> "str", s |-> <<"r","e","a","d","i","n","g">>]]]]>>]

\* {"intent": "log", "habits": null}
R_habits_null ==
  [status |-> "text",
   text |-> <<[tok |-> "json", value |-> [kind |-> "object", obj |-> [intent |-> "log", habits |-> [kind |-> "null"]]]]>>]

\* {"intent": "log", "habits": ["gym", 7]}
R_habit_number ==
  [status |-> "text",
   text |-> <<[tok |-> "json", value |-> [kind |-> "object", obj |-> [intent |-> "log", habits |-> [kind |-> "list", items |-> <<[kind |-> "str", s |-> <<"g","y","m">>], [kind |-> "number"]>>]]]]>>]

\* ["log", "reading"]
R_array ==
  [status |-> "text",
   text |-> <<[tok |-> "json", value |-> [kind |-> "array"]]>>]

\* {"intent": "query", "habits": ["reading"]}
R_query_reading ==
  [status |-> "text",
   text |-> <<[tok |-> "json", value |-> [kind |-> "object", obj |-> [intent |-> "query", habits |-> [kind |-> "list", items |-> <<[kind |-> "str", s |-> <<"r","e","a","d","i","n","g">>]>>]]]]>>]

Responses ==
  {R_down, R_not_json, R_log_reading, R_fenced_add,
   R_bare_fence_delete, R_prose_then_fence, R_unknown_intent, R_empty_intent,
   R_null_intent, R_no_intent, R_no_habits, R_extra_field,
   R_duplicates, R_habits_string, R_habits_null, R_habit_number,
   R_array, R_query_reading}

----------------------------------------------------------------------------
(* Bounds and the inputs drawn within them                                 *)

StartTime == 172800      \* the clock when the session starts: day 2, 00:00:00
MaxElapsed == 301        \* the session is followed for this many seconds
MaxCycles == 4           \* the session is followed for this many interaction cycles
MaxEvents == 3           \* analytics: longest event list
MaxDay == 4              \* analytics: events fall on days 0..MaxDay
MaxWeekEvents == 2       \* weekly progress: longest event list
MaxCalls == 4            \* habit service: the session is followed for this many calls
MaxSubmits == 3          \* command handler: the session is followed for this many commands
MaxToday == 14           \* weekly progress: today is one of the days 7..MaxToday

Users == {"ann", "bob"}

\* the clock advances between interaction cycles by one of these
TickSteps == {SESSION_TIMEOUT, SESSION_TIMEOUT + 1}

LogEvent(habit, time, duration) ==
  [habit |-> habit, action |-> CompletedText(habit, duration), time |-> time,
   type |-> "log", duration |-> duration]
AddEvent(habit, time) ==
  [habit |-> habit, action |-> <<"Added habit: ", habit>>, time |-> time, type |-> "add"]

\* what the users' files hold when the session starts: an earlier log, and nothing
InitialFiles ==
  ("ann" :> <<LogEvent("reading", StartTime - SECONDS_PER_DAY, <<>>),
              LogEvent("workout", StartTime - 3600, <<>>)>>) @@
  ("bob" :> <<>>)

\* the orders in which a Python set of categories may be iterated
SetOrders == {<<1, 2, 3, 4, 5, 6>>, <<6, 5, 4, 3, 2, 1>>}

\* the commands submitted to the page: a text and what the completion API does with it
AppInputs ==
  {[text |-> T_did_reading_1_hour, response |-> R_down],
   [text |-> T_create_gratitude, response |-> R_down],
   [text |-> T_delete_workout, response |-> R_down],
   [text |-> T_set_goal_reading, response |-> R_down],
   [text |-> T_goal_gym_0, response |-> R_down],
   [text |-> T_show_dashboard, response |-> R_down],
   [text |-> T_no, response |-> R_down],
   [text |-> T_did_swimming, response |-> R_down]}

\* what the goal form can submit: a habit of the log and a number from 1 to 14
GoalFormTargets == {14}

\* analytics: the events a list is made of (a log event of either habit or an add
\* event of reading on any day), and the lists whose times do not decrease
AnalyticsHabits == {"reading", "workout"}
EventChoices ==
  {LogEvent(h, d * SECONDS_PER_DAY, <<>>) : h \in AnalyticsHabits, d \in 0..MaxDay}
  \cup {AddEvent("reading", d * SECONDS_PER_DAY) : d \in 0..MaxDay}
EventLists ==
  {logs \in UNION {[1..n -> EventChoices] : n \in 0..MaxEvents} :
     \A i \in 1..(Len(logs) - 1) : logs[i].time <= logs[i + 1].time}

\* the commands submitted to the page of a logged-in user when the command handler
\* is looked at on its own: one text at least for every intent
SubmitInputs ==
  {[text |-> text, response |-> R_down] :
     text \in {T_show_my_progress, T_show_weekly_progress, T_how_am_i_doing, T_show_dashboard,
               T_yes, T_no, T_help, T_export, T_reading_streak, T_set_goal_reading,
               T_goal_gym_0, T_did_swimming, T_did_reading_1_hour, T_delete_workout}}
  \cup {[text |-> T_did_reading_and_workout, response |-> R_query_reading]}

\* parse_voice_command on each submitted command
ParsedInputs ==
  [input \in AppInputs \cup SubmitInputs |-> parse_voice_command(input.text, input.response)]

\* weekly progress: events at the last second before Monday of day 7, at that
\* Monday 00:00:00, on the Thursday after it and at the next Monday 00:00:00
WeekTimes ==
  {7 * SECONDS_PER_DAY - 1, 7 * SECONDS_PER_DAY, 10 * SECONDS_PER_DAY, 14 * SECONDS_PER_DAY}
WeekEventChoices ==
  {LogEvent(h, t, <<>>) : h \in AnalyticsHabits, t \in WeekTimes}
  \cup {AddEvent("reading", t) : t \in WeekTimes}
WeekEventLists ==
  {logs \in UNION {[1..n -> WeekEventChoices] : n \in 0..MaxWeekEvents} :
     \A i \in 1..(Len(logs) - 1) : logs[i].time <= logs[i + 1].time}

\* weekly progress: the goal maps given, as they are read from a goals file
WeekGoal(habit, target_per_week) ==
  [target_per_week |-> target_per_week, created |-> 0, category |-> get_habit_category(habit)]
ReadingGoals == {<<>>} \cup {"reading" :> WeekGoal("reading", t) : t \in {0, 1, 2}}
WorkoutGoals == {<<>>} \cup {"workout" :> WeekGoal("workout", t) : t \in {-1, 2}}
WeekGoalMaps == {r @@ k : r \in ReadingGoals, k \in WorkoutGoals}

\* habit service: the commands given to handle_habit_action, each the parse of a
\* text with the completion API unavailable
T_delete_yoga == <<"D","e","l","e","t","e"," ","y","o","g","a">>
ServiceTexts ==
  {T_did_reading_1_hour, T_add_reading_and_workout, T_create_gratitude, T_delete_workout,
   T_delete_yoga, T_goal_yoga_3, T_goal_gym_0, T_set_goal_swimming, T_set_goal_reading,
   T_goal_workout_3}
ServiceCommands == {parse_voice_command(text, R_down) : text \in ServiceTexts}

Elems(s) == {s[i] : i \in 1..Len(s)}

\* for habit in habits: append it if it is new; stop once the list holds `limit`
RECURSIVE AddSuggestions(_, _, _, _, _)
AddSuggestions(habits, k, suggestions, user_habits, limit) ==
  IF k > Len(habits) THEN suggestions
  ELSE IF habits[k] \notin user_habits /\ habits[k] \notin Elems(suggestions)
       THEN IF Len(suggestions) + 1 >= limit THEN Append(suggestions, habits[k])
            ELSE AddSuggestions(habits, k + 1, Append(suggestions, habits[k]), user_habits, limit)
  ELSE AddSuggestions(habits, k + 1, suggestions, user_habits, limit)

\* for category in user_categories, in the order the set yields them
RECURSIVE AddByCategory(_, _, _, _)
AddByCategory(order, k, suggestions, user_habits) ==
  IF k > Len(order) THEN suggestions
  ELSE LET cat == HABIT_CATEGORIES[order[k]]
       IN IF \E h \in user_habits : get_habit_category(h) = cat.category
          THEN AddByCategory(order, k + 1,
                             AddSuggestions(cat.habits, 1, suggestions, user_habits, 3),
                             user_habits)
          ELSE AddByCategory(order, k + 1, suggestions, user_habits)

POPULAR_HABITS == <<"reading", "workout", "meditating", "journaling", "drinking water">>

FirstN(s, n) == SubSeq(s, 1, IF Len(s) < n THEN Len(s) ELSE n)

\* utils/helpers.py get_smart_suggestions, its "suggestions"
get_smart_suggestions(logs, order) ==
  LET user_habits == UniqueHabits(logs)
  IN IF logs = <<>> THEN POPULAR_HABITS
     ELSE IF user_habits = {} THEN FirstN(POPULAR_HABITS, 3)
     ELSE FirstN(AddSuggestions(POPULAR_HABITS, 1,
                                AddByCategory(order, 1, <<>>, user_habits),
                                user_habits, 5), 5)

\* app.py 105-111: the session is initialised for the user chosen in the sidebar
init_user_session(w, current_user) ==
  IF w.ss.current_user # current_user
  THEN [w EXCEPT !.ss.current_user = current_user,
                 !.ss.habit_logs = load_user_data(w, current_user),
                 !.ss.habit_goals = load_user_goals(w, current_user),
                 !.ss.show_dashboard = FALSE]
  ELSE w

\* if st.button(key=f"suggest_{habit}"): habit_service._handle_habit_confirmation(...)
suggestion_button(w, habit, current_user) ==
  IF w.trigger = SuggestButton(habit)
  THEN handle_habit_confirmation(w, habit, <<>>, "add", current_user)
  ELSE w

\* for habit in suggestion_list[:3]
RECURSIVE suggestion_buttons(_, _, _, _)
suggestion_buttons(w, suggestion_list, k, current_user) ==
  IF k > Len(suggestion_list) \/ w.halt # "run" THEN w
  ELSE suggestion_buttons(
         suggestion_button(Render(w, SuggestButton(suggestion_list[k])),
                           suggestion_list[k], current_user),
         suggestion_list, k + 1, current_user)

\* app.py 128-135: a button for each of the first three suggestions
suggestions_section(w, current_user) ==
  suggestion_buttons(w, FirstN(get_smart_suggestions(w.ss.habit_logs, w.set_order), 3),
                     1, current_user)

\* app.py 141-143: the timeout check, unless the run has ended
timeout_section(w) == IF w.halt = "run" THEN check_session_timeout(w) ELSE w

\* app.py 171-206: the intents handled by the page, and the rest by the habit service
dispatch_command(w, parsed, current_user) ==
  CASE parsed.intent = "streak_query" -> Say(w, "streaks")
    [] parsed.intent = "progress_query" -> Say(w, "weekly_progress")
    [] parsed.intent = "help" -> Say(w, "help")
    [] parsed.intent = "export" -> Say([w EXCEPT !.ss.show_export = TRUE], "opening_export")
    [] OTHER -> handle_habit_action(w, parsed, current_user)

\* app.py 166-169: the command is parsed and shown
run_command(w, parsed, current_user) ==
  dispatch_command([w EXCEPT !.out.command = parsed], parsed, current_user)

\* if st.button("Submit Command"): if user_input: ...
submit_button(w, current_user) ==
  IF Clicked(w, "submit") /\ w.trigger.text # <<>>
  THEN run_command(w, ParsedInputs[[text |-> w.trigger.text, response |-> w.trigger.response]],
                   current_user)
  ELSE w

\* app.py 163-206: the Submit Command button
submit_command(w, current_user) ==
  IF w.halt = "run" THEN submit_button(Render(w, Button("submit")), current_user) ELSE w

main_button_clicked(w) ==
  CASE Clicked(w, "dashboard") -> [w EXCEPT !.ss.show_dashboard = TRUE]
    [] Clicked(w, "set_goals") -> [w EXCEPT !.ss.show_goal_setting = TRUE]
    [] Clicked(w, "export") -> [w EXCEPT !.ss.show_export = TRUE]
    [] OTHER -> w

\* app.py 208-221: the Dashboard, Set Goals and Export Data buttons
main_buttons(w) ==
  IF w.halt = "run"
  THEN main_button_clicked(
         Render(Render(Render(w, Button("dashboard")), Button("set_goals")), Button("export")))
  ELSE w

\* if st.button("Set Goal"): habit_service.set_habit_goal(...)
goal_set_button(w, current_user) ==
  IF Clicked(w, "goal_set")
  THEN Say(set_habit_goal(w, current_user, w.trigger.habit, w.trigger.target), "goal_set")
  ELSE w

\* if st.button("Close"): show_goal_setting = False; st.rerun()
goal_close_button(w) ==
  IF Clicked(w, "goal_close")
  THEN [w EXCEPT !.ss.show_goal_setting = FALSE, !.halt = "rerun"]
  ELSE w

\* app.py 223-249: the goal form
goal_setting_section(w, current_user) ==
  IF ~w.ss.show_goal_setting \/ w.halt # "run" THEN w
  ELSE IF HabitsIn(w.ss.habit_logs) = {} THEN Say(w, "log_first")
  ELSE goal_close_button(Render(goal_set_button(Render(w, Button("goal_set")), current_user),
                                Button("goal_close")))

export_close_button(w) ==
  IF Clicked(w, "export_close") THEN [w EXCEPT !.ss.show_export = FALSE, !.halt = "rerun"]
  ELSE w

\* app.py 251-293: the export section; the downloads change nothing
export_section(w) ==
  IF ~w.ss.show_export \/ w.halt # "run" THEN w
  ELSE export_close_button(Render(w, Button("export_close")))

dashboard_close_button(w) ==
  IF Clicked(w, "dashboard_close")
  THEN [w EXCEPT !.ss.show_dashboard = FALSE, !.halt = "rerun"]
  ELSE w

\* app.py 295-302: the dashboard section
dashboard_section(w) ==
  IF ~w.ss.show_dashboard \/ w.halt # "run" THEN w
  ELSE dashboard_close_button(Render(w, Button("dashboard_close")))

\* app.py 375-381: auto-save
auto_save(w, current_user) ==
  IF w.halt = "run" /\ w.now - w.ss.last_save_time > AUTO_SAVE_INTERVAL
     /\ w.ss.habit_logs # <<>>
  THEN [save_session_goals(save_user_data(w, current_user, w.ss.habit_logs), current_user)
          EXCEPT !.ss.last_save_time = w.now]
  ELSE w

\* one run of app.py, from the top, for the user named in the sidebar
run_script(w, current_user) ==
  IF current_user = None THEN [Say(w, "enter_name") EXCEPT !.halt = "stop"]
  ELSE auto_save(
         dashboard_section(export_section(goal_setting_section(
           main_buttons(submit_command(timeout_section(
             suggestions_section(init_user_session(w, current_user), current_user)),
             current_user)),
           current_user))),
         current_user)

NoTrigger == [key |-> "none"]
\* what a run has shown and done so far; replaced: _handle_habit_confirmation
\* overwrote a pending action
NoOutput ==
  [messages |-> {}, buttons |-> {}, executed |-> FALSE, command |-> NoAction,
   replaced |-> FALSE, save_failed |-> FALSE]

\* st.rerun(): the script runs again at once, with no button clicked
rerun(w, current_user) ==
  IF w.halt = "rerun"
  THEN run_script([w EXCEPT !.halt = "run", !.trigger = NoTrigger,
                            !.out.messages = {}, !.out.buttons = {}],
                  current_user)
  ELSE w

\* an interaction cycle: the run the event triggers and, when that run ends in
\* st.rerun(), the run that follows it
interaction_cycle(w, current_user) == rerun(run_script(w, current_user), current_user)

----------------------------------------------------------------------------
(* The session as a state machine                                          *)

World(trigger, storage_ok) ==
  [ss |-> session_state, user_files |-> user_files, goal_files |-> goal_files,
   now |-> now, set_order |-> set_order, trigger |-> trigger, storage_ok |-> storage_ok,
   out |-> NoOutput, halt |-> "run"]

\* app.py 64-77: the defaults of a new session
session_vars ==
  [current_user |-> None, habit_logs |-> <<>>, habit_goals |-> <<>>,
   show_dashboard |-> FALSE, show_goal_setting |-> FALSE, show_export |-> FALSE,
   pending_action |-> NoAction, last_save_time |-> StartTime]

\* what is recorded of the last interaction cycle
NoCycle ==
  [key |-> "none", command |-> NoAction, timed_out |-> FALSE, executed |-> FALSE,
   replaced |-> FALSE, messages |-> {}, save_failed |-> FALSE, text |-> <<>>]

\* no weekly progress asked for
NoWeekly == [goals |-> <<>>, progress |-> <<>>, computed |-> FALSE]

IdleHarness ==
  /\ weekly = NoWeekly
  /\ raw_text = <<>>
  /\ oracle_response = R_down
  /\ parsed_command = NoAction
  /\ habit_logs = <<>>
  /\ today = 0
  /\ streaks = [computed |-> {}, current |-> <<>>, longest |-> <<>>]

IdleSession ==
  /\ session_state = session_vars
  /\ user_files = [u \in Users |-> <<>>]
  /\ goal_files = [u \in Users |-> <<>>]
  /\ now = StartTime
  /\ set_order = <<1, 2, 3, 4, 5, 6>>
  /\ page = [user |-> None, buttons |-> {}]
  /\ last = NoCycle
  /\ cycles = 0

harness_vars ==
  <<raw_text, oracle_response, parsed_command, habit_logs, today, streaks, weekly>>
session_vars_all ==
  <<session_state, user_files, goal_files, now, set_order, page, last, cycles>>

\* the page of a new session, before a name is entered in the sidebar
Init ==
  /\ session_state = session_vars
  /\ user_files = InitialFiles
  /\ goal_files = [u \in Users |-> <<>>]
  /\ now = StartTime
  /\ set_order \in SetOrders
  /\ page = [user |-> None, buttons |-> {}]
  /\ last = NoCycle
  /\ cycles = 0
  /\ IdleHarness

\* what is recorded of an interaction cycle that ended in the world w
CycleRecord(w, trigger) ==
  [key |-> trigger.key, command |-> w.out.command,
   timed_out |-> "timeout" \in w.out.messages, executed |-> w.out.executed,
   replaced |-> w.out.replaced, messages |-> w.out.messages,
   save_failed |-> w.out.save_failed,
   text |-> IF "text" \in DOMAIN trigger THEN trigger.text ELSE <<>>]

\* the session after an interaction cycle that ended in the world w
CycleEnds(w, current_user, trigger) ==
  /\ session_state' = w.ss
  /\ user_files' = w.user_files
  /\ goal_files' = w.goal_files
  /\ page' = [user |-> current_user, buttons |-> w.out.buttons]
  /\ last' = CycleRecord(w, trigger)

\* one widget event and the interaction cycle it triggers
Cycle(current_user, trigger, storage_ok) ==
  /\ cycles < MaxCycles
  /\ cycles' = cycles + 1
  /\ CycleEnds(interaction_cycle(World(trigger, storage_ok), current_user),
               current_user, trigger)
  /\ UNCHANGED <<now, set_order>>
  /\ UNCHANGED harness_vars

\* the sidebar: a user is selected, a name is entered or the name is cleared
SelectUser ==
  \E u \in Users \cup {None}, storage_ok \in BOOLEAN :
    /\ u # page.user
    /\ Cycle(u, NoTrigger, storage_ok)

SubmitCommand ==
  \E input \in AppInputs, storage_ok \in BOOLEAN :
    /\ Button("submit") \in page.buttons
    /\ Cycle(page.user,
             [key |-> "submit", text |-> input.text, response |-> input.response],
             storage_ok)

ClickSuggestion ==
  \E h \in HabitNames, storage_ok \in BOOLEAN :
    /\ SuggestButton(h) \in page.buttons
    /\ Cycle(page.user, SuggestButton(h), storage_ok)

ClickConfirmYes ==
  \E storage_ok \in BOOLEAN :
    /\ Button("confirm_yes") \in page.buttons
    /\ Cycle(page.user, Button("confirm_yes"), storage_ok)

ClickConfirmNo ==
  \E storage_ok \in BOOLEAN :
    /\ Button("confirm_no") \in page.buttons
    /\ Cycle(page.user, Button("confirm_no"), storage_ok)

ClickDashboard ==
  \E storage_ok \in BOOLEAN :
    /\ Button("dashboard") \in page.buttons
    /\ Cycle(page.user, Button("dashboard"), storage_ok)

ClickSetGoals ==
  \E storage_ok \in BOOLEAN :
    /\ Button("set_goals") \in page.buttons
    /\ Cycle(page.user, Button("set_goals"), storage_ok)

ClickExport ==
  \E storage_ok \in BOOLEAN :
    /\ Button("export") \in page.buttons
    /\ Cycle(page.user, Button("export"), storage_ok)

ClickCloseGoals ==
  \E storage_ok \in BOOLEAN :
    /\ Button("goal_close") \in page.buttons
    /\ Cycle(page.user, Button("goal_close"), storage_ok)

ClickCloseExport ==
  \E storage_ok \in BOOLEAN :
    /\ Button("export_close") \in page.buttons
    /\ Cycle(page.user, Button("export_close"), storage_ok)

ClickCloseDashboard ==
  \E storage_ok \in BOOLEAN :
    /\ Button("dashboard_close") \in page.buttons
    /\ Cycle(page.user, Button("dashboard_close"), storage_ok)

SubmitGoalForm ==
  \E h \in HabitsIn(session_state.habit_logs), t \in GoalFormTargets, storage_ok \in BOOLEAN :
    /\ Button("goal_set") \in page.buttons
    /\ Cycle(page.user, [key |-> "goal_set", habit |-> h, target |-> t], storage_ok)

Tick ==
  \E d \in TickSteps :
    /\ now + d <= StartTime + MaxElapsed
    /\ now' = now + d
    /\ UNCHANGED <<session_state, user_files, goal_files, set_order, page, last, cycles>>
    /\ UNCHANGED harness_vars

Next ==
  \/ SelectUser
  \/ SubmitCommand
  \/ ClickSuggestion
  \/ ClickConfirmYes
  \/ ClickConfirmNo
  \/ ClickDashboard
  \/ ClickSetGoals
  \/ ClickExport
  \/ SubmitGoalForm
  \/ ClickCloseGoals
  \/ ClickCloseExport
  \/ ClickCloseDashboard
  \/ Tick

Spec == Init /\ [][Next]_vars

----------------------------------------------------------------------------
(* The interpreter on its own: every text with every behaviour of the API  *)

InitInterpret ==
  /\ IdleSession
  /\ raw_text \in Texts
  /\ oracle_response \in Responses
  /\ parsed_command = NoAction
  /\ habit_logs = <<>>
  /\ today = 0
  /\ streaks = [computed |-> {}, current |-> <<>>, longest |-> <<>>]
  /\ weekly = NoWeekly

Interpret ==
  /\ parsed_command = NoAction
  /\ parsed_command' = parse_voice_command(raw_text, oracle_response)
  /\ UNCHANGED <<raw_text, oracle_response, habit_logs, today, streaks, weekly>>
  /\ UNCHANGED session_vars_all

NextInterpret == Interpret

SpecInterpret == InitInterpret /\ [][NextInterpret]_vars

----------------------------------------------------------------------------
(* The streak engine on its own: every event list with every today         *)

InitAnalytics ==
  /\ IdleSession
  /\ raw_text = <<>>
  /\ oracle_response = R_down
  /\ parsed_command = NoAction
  /\ habit_logs \in EventLists
  /\ today \in 0..(MaxDay + 1)
  /\ streaks = [computed |-> {}, current |-> <<>>, longest |-> <<>>]
  /\ weekly = NoWeekly

CalculateStreaks ==
  /\ "current" \notin streaks.computed
  /\ streaks' = [streaks EXCEPT !.computed = @ \cup {"current"},
                                !.current = calculate_streaks(habit_logs, today)]
  /\ UNCHANGED <<raw_text, oracle_response, parsed_command, habit_logs, today, weekly>>
  /\ UNCHANGED session_vars_all

GetLongestStreaks ==
  /\ "longest" \notin streaks.computed
  /\ streaks' = [streaks EXCEPT !.computed = @ \cup {"longest"},
                                !.longest = get_longest_streaks(habit_logs)]
  /\ UNCHANGED <<raw_text, oracle_response, parsed_command, habit_logs, today, weekly>>
  /\ UNCHANGED session_vars_all

NextAnalytics == CalculateStreaks \/ GetLongestStreaks

SpecAnalytics == InitAnalytics /\ [][NextAnalytics]_vars


----------------------------------------------------------------------------
(* Weekly progress on its own: every event list, goal map and today        *)

InitWeekly ==
  /\ IdleSession
  /\ raw_text = <<>>
  /\ oracle_response = R_down
  /\ parsed_command = NoAction
  /\ habit_logs \in WeekEventLists
  /\ today \in 7..MaxToday
  /\ streaks = [computed |-> {}, current |-> <<>>, longest |-> <<>>]
  /\ weekly \in {[goals |-> g, progress |-> <<>>, computed |-> FALSE] : g \in WeekGoalMaps}

CheckWeeklyProgress ==
  /\ ~weekly.computed
  /\ weekly' = [weekly EXCEPT !.progress = check_weekly_progress(habit_logs, weekly.goals, today),
                              !.computed = TRUE]
  /\ UNCHANGED <<raw_text, oracle_response, parsed_command, habit_logs, today, streaks>>
  /\ UNCHANGED session_vars_all

NextWeekly == CheckWeeklyProgress

SpecWeekly == InitWeekly /\ [][NextWeekly]_vars

----------------------------------------------------------------------------
(* The habit service on its own: the calls that HabitService and the       *)
(* timeout check offer to a page, in any order, for one user               *)

\* the session of a user whose data has been loaded (app.py 105-111)
UserSession(u) ==
  [session_vars EXCEPT !.current_user = u,
                       !.habit_logs = InitialFiles[u],
                       !.habit_goals = <<>>]

InitService ==
  /\ \E u \in Users :
       /\ session_state = UserSession(u)
       /\ page = [user |-> u, buttons |-> {}]
  /\ user_files = InitialFiles
  /\ goal_files = [u \in Users |-> <<>>]
  /\ now = StartTime
  /\ set_order = <<1, 2, 3, 4, 5, 6>>
  /\ last = NoCycle
  /\ cycles = 0
  /\ IdleHarness

\* a call of the service and the state it leaves
ServiceCall(w, key) ==
  /\ cycles < MaxCalls
  /\ cycles' = cycles + 1
  /\ CycleEnds(w, page.user, [key |-> key])
  /\ UNCHANGED <<now, set_order>>
  /\ UNCHANGED harness_vars

\* habit_service.handle_habit_action(command, current_user)
HandleHabitAction ==
  \E command \in ServiceCommands, storage_ok \in BOOLEAN :
    /\ page.user # None
    /\ ServiceCall(handle_habit_action([World(NoTrigger, storage_ok)
                                          EXCEPT !.out.command = command],
                                       command, page.user),
                   "command")

\* habit_service._execute_confirmed_action()
ExecuteConfirmedAction ==
  \E storage_ok \in BOOLEAN :
    /\ IsPending(session_state.pending_action)
    /\ ServiceCall(execute_confirmed_action(World(NoTrigger, storage_ok)), "execute")

\* habit_service.set_habit_goal(current_user, selected_habit, goal_target)
SetHabitGoal ==
  \E h \in HabitsIn(session_state.habit_logs), t \in GoalFormTargets, storage_ok \in BOOLEAN :
    /\ page.user # None
    /\ ServiceCall(set_habit_goal(World(NoTrigger, storage_ok), page.user, h, t), "goal_form")

\* check_session_timeout(st.session_state)
CheckSessionTimeout ==
  /\ IsPending(session_state.pending_action)
  /\ ServiceCall(check_session_timeout(World(NoTrigger, TRUE)), "timeout")

NextService ==
  \/ HandleHabitAction
  \/ ExecuteConfirmedAction
  \/ SetHabitGoal
  \/ CheckSessionTimeout
  \/ Tick

SpecService == InitService /\ [][NextService]_vars

----------------------------------------------------------------------------
(* The interpreter without the API on "I did h1 and h2", every pair of the  *)
(* taxonomy                                                                 *)

\* f"I did {h1} and {h2}"
PairText(h1, h2) ==
  <<"I", " ", "d", "i", "d", " ">> \o Spelling[h1] \o <<" ", "a", "n", "d", " ">> \o Spelling[h2]

PairTexts == {PairText(h1, h2) : h1, h2 \in Elems(COMMON_HABITS)}

InitPairs ==
  /\ IdleSession
  /\ raw_text \in PairTexts
  /\ oracle_response = R_down
  /\ parsed_command = NoAction
  /\ habit_logs = <<>>
  /\ today = 0
  /\ streaks = [computed |-> {}, current |-> <<>>, longest |-> <<>>]
  /\ weekly = NoWeekly

SpecPairs == InitPairs /\ [][NextInterpret]_vars

----------------------------------------------------------------------------
(* The page of a logged-in user and its Submit Command button, for every    *)
(* kind of command                                                          *)

\* a new session on its first run
FreshWorld ==
  [ss |-> session_vars, user_files |-> InitialFiles, goal_files |-> [u \in Users |-> <<>>],
   now |-> StartTime, set_order |-> <<1, 2, 3, 4, 5, 6>>, trigger |-> NoTrigger,
   storage_ok |-> TRUE, out |-> NoOutput, halt |-> "run"]

\* the session after the run in which user u entered the name
LoggedIn(u, w) ==
  /\ session_state = w.ss
  /\ user_files = w.user_files
  /\ goal_files = w.goal_files
  /\ page = [user |-> u, buttons |-> w.out.buttons]

InitSubmit ==
  /\ \E u \in Users : LoggedIn(u, interaction_cycle(FreshWorld, u))
  /\ now = StartTime
  /\ set_order = <<1, 2, 3, 4, 5, 6>>
  /\ last = NoCycle
  /\ cycles = 0
  /\ IdleHarness

\* a command is typed and Submit Command is clicked
SubmitAny ==
  \E input \in SubmitInputs, storage_ok \in BOOLEAN :
    /\ Button("submit") \in page.buttons
    /\ cycles < MaxSubmits
    /\ Cycle(page.user,
             [key |-> "submit", text |-> input.text, response |-> input.response],
             storage_ok)

NextSubmit ==
  \/ SubmitAny
  \/ Tick

SpecSubmit == InitSubmit /\ [][NextSubmit]_vars

----------------------------------------------------------------------------
(* The page of a logged-in user while the clock runs past the timeout: the  *)
(* user keeps coming back to the page                                       *)

\* a pending action recorded now is older than the timeout before the clock of the
\* model stops
CanExpire == now + SESSION_TIMEOUT < StartTime + MaxElapsed

\* an interaction cycle that is not counted
VisitCycle(current_user, trigger, storage_ok) ==
  /\ CycleEnds(interaction_cycle(World(trigger, storage_ok), current_user),
               current_user, trigger)
  /\ UNCHANGED <<now, set_order, cycles>>
  /\ UNCHANGED harness_vars

\* the commands submitted while the clock runs: two that record a pending action,
\* a confirm, a cancel and one that opens the dashboard
LiveInputs ==
  {input \in SubmitInputs :
     input.text \in {T_did_reading_1_hour, T_delete_workout, T_yes, T_no, T_show_dashboard}}

\* a command is submitted, early enough for its pending action to expire
SubmitEarly ==
  \E input \in LiveInputs, storage_ok \in BOOLEAN :
    /\ CanExpire
    /\ Button("submit") \in page.buttons
    /\ VisitCycle(page.user,
                  [key |-> "submit", text |-> input.text, response |-> input.response],
                  storage_ok)

\* a suggested habit is clicked, early enough for its pending action to expire
SuggestEarly ==
  \E h \in HabitNames, storage_ok \in BOOLEAN :
    /\ CanExpire
    /\ SuggestButton(h) \in page.buttons
    /\ VisitCycle(page.user, SuggestButton(h), storage_ok)

\* a button of the confirmation is clicked
ClickConfirmation ==
  \E key \in {"confirm_yes", "confirm_no"}, storage_ok \in BOOLEAN :
    /\ Button(key) \in page.buttons
    /\ VisitCycle(page.user, Button(key), storage_ok)

\* the page is run again for the same user: a reload, or any widget that records
\* no pending action
Revisit ==
  \E storage_ok \in BOOLEAN :
    /\ page.user # None
    /\ VisitCycle(page.user, NoTrigger, storage_ok)

\* the clock advances; it stops after it has passed the end of the session followed
ClockAdvances ==
  \E d \in TickSteps :
    /\ now <= StartTime + MaxElapsed
    /\ now' = now + d
    /\ UNCHANGED <<session_state, user_files, goal_files, set_order, page, last, cycles>>
    /\ UNCHANGED harness_vars

NextLive ==
  \/ SubmitEarly
  \/ SuggestEarly
  \/ ClickConfirmation
  \/ Revisit
  \/ ClockAdvances

\* a run of the page that ends in the world w leaves a state other than this one
RunChanges(w) ==
  \/ w.ss # session_state
  \/ w.user_files # user_files
  \/ w.goal_files # goal_files
  \/ w.out.buttons # page.buttons
  \/ CycleRecord(w, NoTrigger) # last

\* ENABLED <<Revisit>>_vars, written as a predicate of the state
RevisitChanges ==
  /\ page.user # None
  /\ \E storage_ok \in BOOLEAN :
       RunChanges(interaction_cycle(World(NoTrigger, storage_ok), page.user))

\* the clock advances and cycles with the active user keep occurring: weak fairness
\* of ClockAdvances and of Revisit, the latter with its ENABLED written out
SpecLive ==
  /\ InitSubmit /\ [][NextLive]_vars
  /\ WF_vars(ClockAdvances)
  /\ ([]<>(~RevisitChanges) \/ []<><<Revisit>>_vars)

----------------------------------------------------------------------------
(* The confirmation gate, checked under Spec                               *)

\* the step is an interaction cycle triggered by the widget with this key
CycleOf(key) == cycles' = cycles + 1 /\ last'.key = key

\* a submitted command that the habit service treats as log, add or delete
IsMutatingCommand(command) ==
  command # NoAction /\ command.intent \in {"log", "add", "delete"}

\* the pending action is outstanding and younger than the timeout window
Outstanding == IsPending(session_state.pending_action)
NotExpired == now - session_state.pending_action.timestamp <= SESSION_TIMEOUT
Expired == now - session_state.pending_action.timestamp > SESSION_TIMEOUT

\* nothing in memory or on disk changes
NoMutation ==
  /\ session_state'.habit_logs = session_state.habit_logs
  /\ session_state'.habit_goals = session_state.habit_goals
  /\ user_files' = user_files
  /\ goal_files' = goal_files

\* C1: a cycle in which a log, add or delete command is submitted, or a suggested
\* habit is clicked, leaves the event log and the goal map as they were and runs
\* no executor; when the command names a habit of the taxonomy (and for every
\* suggestion) the cycle ends with a pending action that holds the command's first
\* habit, its duration and its type, the active user and the time of the cycle.
C1_CommandOnlyRecordsPending ==
  [][(/\ cycles' = cycles + 1
      /\ \/ last'.key = "suggest"
         \/ last'.key = "submit" /\ IsMutatingCommand(last'.command))
     => /\ session_state'.habit_logs = session_state.habit_logs
        /\ session_state'.habit_goals = session_state.habit_goals
        /\ ~last'.executed
        /\ last'.key = "suggest" =>
             /\ IsPending(session_state'.pending_action)
             /\ session_state'.pending_action.action_type = "add"
             /\ session_state'.pending_action.user = page'.user
             /\ session_state'.pending_action.timestamp = now'
        /\ (last'.key = "submit" /\ last'.command.habits # <<>>) =>
             /\ IsPending(session_state'.pending_action)
             /\ session_state'.pending_action.habit = last'.command.habits[1]
             /\ session_state'.pending_action.duration = last'.command.duration
             /\ session_state'.pending_action.action_type = last'.command.intent
             /\ session_state'.pending_action.user = page'.user
             /\ session_state'.pending_action.timestamp = now'
    ]_vars

\* C1's case: ann, whose log holds workout events, has submitted "Delete workout";
\* the delete is pending and her log and file still hold every event
C1_Witness ==
  /\ last.key = "submit"
  /\ IsMutatingCommand(last.command)
  /\ last.command.intent = "delete"
  /\ IsPending(session_state.pending_action)
  /\ session_state.pending_action.habit = "workout"
  /\ session_state.pending_action.action_type = "delete"
  /\ session_state.current_user = "ann"
  /\ session_state.habit_logs = InitialFiles["ann"]
  /\ user_files["ann"] = InitialFiles["ann"]

\* C2: when a pending action is outstanding and not timed out, the cycle triggered
\* by a click on its confirm button runs the executor and ends with no pending
\* action.
C2_ConfirmExecutes ==
  [][(CycleOf("confirm_yes") /\ Outstanding /\ NotExpired)
     => (last'.executed /\ ~IsPending(session_state'.pending_action))]_vars

\* C3: when a pending action is outstanding, the cycle triggered by a click on its
\* cancel button ends with no pending action and changes neither the event log,
\* the goal map nor the files.
C3_CancelClears ==
  [][(CycleOf("confirm_no") /\ Outstanding)
     => (~IsPending(session_state'.pending_action) /\ NoMutation)]_vars

\* C4: the session holds one pending action; after a second confirmable command
\* replaced the first, the cycle triggered by a click on the confirm button applies
\* the pending (second) action: the executor runs and the event log changes as the
\* pending action says, by one appended event or by the removal of the habit's
\* events.
C4_ConfirmAppliesSecond ==
  [][(CycleOf("confirm_yes") /\ last.replaced /\ Outstanding /\ NotExpired)
     => /\ last'.executed
        /\ ~IsPending(session_state'.pending_action)
        /\ session_state.pending_action.action_type = "delete" =>
             session_state.pending_action.habit \notin HabitsIn(session_state'.habit_logs)
        /\ session_state.pending_action.action_type = "log" =>
             /\ Len(session_state'.habit_logs) = Len(session_state.habit_logs) + 1
             /\ session_state'.habit_logs[Len(session_state'.habit_logs)].habit =
                  session_state.pending_action.habit
    ]_vars

\* C5: in a cycle for an active user that starts with a pending action older than
\* the timeout window, the timeout check reports the timeout and no executor runs.
C5_ExpiredIsReported ==
  [][(cycles' = cycles + 1 /\ page'.user # None /\ Outstanding /\ Expired)
     => (last'.timed_out /\ ~last'.executed)]_vars

\* C6: a pending action that is outstanding belongs to the active user.
C6_PendingBelongsToActiveUser ==
  IsPending(session_state.pending_action)
    => session_state.pending_action.user = session_state.current_user

----------------------------------------------------------------------------
(* The interpreter, checked under SpecInterpret                            *)

\* the intents of a Command
INTENTS ==
  {"log", "add", "delete", "set_goal", "streak_query", "progress_query", "dashboard",
   "confirm", "cancel", "help", "export", "query"}

\* C7: the command returned for a text and an API behaviour has an intent of the
\* fixed enumeration and only habits of the taxonomy.
C7_CommandInEnum ==
  parsed_command # NoAction =>
    /\ parsed_command.intent \in INTENTS
    /\ \A i \in 1..Len(parsed_command.habits) : parsed_command.habits[i] \in HabitNames

\* none of the steps before the completion API matches the text: no goal pattern
\* names a habit of the taxonomy and the text holds no keyword of the seven lists
NoStepMatchesLower(text_lower) ==
  /\ \A k \in 1..Len(GOAL_PATTERNS) : ~GoalHit(text_lower, k)
  /\ ~AnyIn(STREAK_KEYWORDS, text_lower)
  /\ ~AnyIn(PROGRESS_KEYWORDS, text_lower)
  /\ ~AnyIn(DASHBOARD_KEYWORDS, text_lower)
  /\ ~AnyIn(CONFIRM_WORDS, text_lower)
  /\ ~AnyIn(CANCEL_WORDS, text_lower)
  /\ ~AnyIn(HELP_WORDS, text_lower)
  /\ ~AnyIn(EXPORT_WORDS, text_lower)

NoStepMatches(text) == NoStepMatchesLower(strip(lower(text)))

\* the API behaviours that give no Command: the call raises; the reply is prose,
\* or prose before a bare fence; the JSON is an array; the object lacks intent or
\* habits or has a fifth field; habits is null or holds a number
UnusableResponses ==
  {R_down, R_not_json, R_prose_then_fence, R_array, R_no_intent, R_no_habits,
   R_extra_field, R_habits_null, R_habit_number}

\* C8: the interpreter returns a Command for every text and API behaviour, and
\* when no earlier step matches and the API gives no Command it returns the
\* Command of the simple parse of the same text.
C8_FallbackOnOracleFailure ==
  parsed_command # NoAction =>
    /\ DOMAIN parsed_command = COMMAND_FIELDS
    /\ (NoStepMatches(raw_text) /\ oracle_response \in UnusableResponses)
         => parsed_command = VoiceCommand(simple_parse(raw_text))

\* C8's case: "I did reading for 1 hour" with a reply that is prose gives the
\* simple parse: log, reading, "1 hour"
C8_Witness ==
  /\ parsed_command # NoAction
  /\ raw_text = T_did_reading_1_hour
  /\ oracle_response = R_not_json
  /\ NoStepMatches(raw_text)
  /\ parsed_command.intent = "log"
  /\ parsed_command.habits = <<"reading">>
  /\ parsed_command.duration = <<"1", " ", "h", "o", "u", "r">>

----------------------------------------------------------------------------
(* The streak engine, checked under SpecAnalytics                          *)

\* habit h has a log event on day d
Logged(h, d) ==
  \E i \in 1..Len(habit_logs) :
    /\ habit_logs[i].type = "log"
    /\ habit_logs[i].habit = h
    /\ DateOf(habit_logs[i].time) = d

\* the length of the maximal run of consecutive logged days of h that ends on day d
RunEndingOn(h, d) ==
  CHOOSE n \in 0..(MaxDay + 2) :
    /\ \A k \in 0..(n - 1) : Logged(h, d - k)
    /\ ~Logged(h, d - n)

\* the day the current streak ends on: today if logged today, else yesterday
StreakEnd(h) == IF Logged(h, today) THEN today ELSE today - 1

\* C9: the current streaks map h to the length of the maximal run of consecutive
\* logged days that ends today, or yesterday when h is not logged today, and hold
\* no entry for a habit logged neither today nor yesterday.
C9_CurrentStreaks ==
  "current" \in streaks.computed =>
    /\ DOMAIN streaks.current \subseteq AnalyticsHabits
    /\ \A h \in AnalyticsHabits :
         IF RunEndingOn(h, StreakEnd(h)) >= 1
         THEN h \in DOMAIN streaks.current
              /\ streaks.current[h] = RunEndingOn(h, StreakEnd(h))
         ELSE h \notin DOMAIN streaks.current

\* C9's case: reading was logged yesterday and the day before but not today, and
\* its current streak is 2; workout has no streak
C9_Witness ==
  /\ "current" \in streaks.computed
  /\ ~Logged("reading", today)
  /\ Logged("reading", today - 1)
  /\ Logged("reading", today - 2)
  /\ "reading" \in DOMAIN streaks.current
  /\ streaks.current["reading"] = 2
  /\ "workout" \notin DOMAIN streaks.current

\* the longest run of consecutive logged days of h
LongestRun(h) ==
  CHOOSE n \in 0..(MaxDay + 2) :
    /\ \E d \in 0..MaxDay : RunEndingOn(h, d) = n
    /\ \A d \in 0..MaxDay : RunEndingOn(h, d) <= n

\* C10: the longest streaks map each habit that has a log event to the length of
\* its longest run of consecutive logged days, and hold no other entry.
C10_LongestStreaks ==
  "longest" \in streaks.computed =>
    /\ DOMAIN streaks.longest \subseteq AnalyticsHabits
    /\ \A h \in AnalyticsHabits :
         IF \E d \in 0..MaxDay : Logged(h, d)
         THEN h \in DOMAIN streaks.longest /\ streaks.longest[h] = LongestRun(h)
         ELSE h \notin DOMAIN streaks.longest

\* C10's case: three log events of reading, two of them on the same day and one
\* on the next day, give a longest streak of 2
C10_Witness ==
  /\ "longest" \in streaks.computed
  /\ Len(habit_logs) = 3
  /\ \A i \in 1..3 : habit_logs[i].type = "log" /\ habit_logs[i].habit = "reading"
  /\ DateOf(habit_logs[1].time) = DateOf(habit_logs[2].time)
  /\ DateOf(habit_logs[3].time) = DateOf(habit_logs[2].time) + 1
  /\ streaks.longest["reading"] = 2

----------------------------------------------------------------------------
(* Weekly progress, checked under SpecWeekly                               *)

\* Monday 00:00:00 of the week of today, found by walking back day by day
MondayOf(day) == CHOOSE d \in (day - 6)..day : d % 7 = 0
LogsSinceMonday(h) ==
  {i \in 1..Len(habit_logs) :
     /\ habit_logs[i].habit = h
     /\ habit_logs[i].type = "log"
     /\ habit_logs[i].time >= MondayOf(today) * SECONDS_PER_DAY}

\* C11: the completed count of each habit that has a goal is the number of its
\* log events timed at or after Monday 00:00:00 of the week of today; events
\* before that instant and add events do not count.
C11_CompletedSinceMonday ==
  weekly.computed =>
    \A h \in DOMAIN weekly.progress :
      weekly.progress[h].completed = Cardinality(LogsSinceMonday(h))

\* C11's case: today is the Wednesday after the Monday of day 7; reading has a log
\* event one second before that Monday and one at that Monday 00:00:00, and its
\* completed count is 1
C11_Witness ==
  /\ weekly.computed
  /\ today = 9
  /\ Len(habit_logs) = 2
  /\ habit_logs[1] = LogEvent("reading", 7 * SECONDS_PER_DAY - 1, <<>>)
  /\ habit_logs[2] = LogEvent("reading", 7 * SECONDS_PER_DAY, <<>>)
  /\ "reading" \in DOMAIN weekly.progress
  /\ weekly.progress["reading"].completed = 1

\* C12: the weekly progress has an entry for exactly the habits that have a goal;
\* its percentage is min(100, 100 * completed / target), or 0 when target <= 0,
\* and lies in 0..100; its status is completed when completed >= target, else
\* in_progress when completed > 0, else not_started.
C12_PercentageAndStatus ==
  weekly.computed =>
    /\ DOMAIN weekly.progress = DOMAIN weekly.goals
    /\ \A h \in DOMAIN weekly.progress :
         LET e == weekly.progress[h]
         IN /\ e.target = weekly.goals[h].target_per_week
            /\ e.percentage.den > 0
            /\ 0 <= e.percentage.num
            /\ e.percentage.num <= 100 * e.percentage.den
            /\ e.target <= 0 => e.percentage.num = 0
            /\ (e.target > 0 /\ e.completed >= e.target) =>
                 e.percentage.num = 100 * e.percentage.den
            /\ (e.target > 0 /\ e.completed < e.target) =>
                 e.percentage.num * e.target = 100 * e.completed * e.percentage.den
            /\ e.status = (IF e.completed >= e.target THEN "completed"
                           ELSE IF e.completed > 0 THEN "in_progress"
                           ELSE "not_started")

\* C12's case: reading has a goal of 1 and two log events this week (100 percent,
\* completed); workout has a goal of 2 and no log event (0 percent, not started)
C12_Witness ==
  /\ weekly.computed
  /\ DOMAIN weekly.progress = {"reading", "workout"}
  /\ weekly.progress["reading"].target = 1
  /\ weekly.progress["reading"].completed = 2
  /\ weekly.progress["reading"].percentage.num = 100 * weekly.progress["reading"].percentage.den
  /\ weekly.progress["reading"].status = "completed"
  /\ weekly.progress["workout"].target = 2
  /\ weekly.progress["workout"].completed = 0
  /\ weekly.progress["workout"].percentage.num = 0
  /\ weekly.progress["workout"].status = "not_started"

----------------------------------------------------------------------------
(* The action executor and the goals, checked under SpecService            *)

\* the step is a call of the service of this kind
ServiceStep(key) == cycles' = cycles + 1 /\ last'.key = key

\* the step is the executor's run on a pending action of this type
ExecutorRuns(action_type) ==
  /\ ServiceStep("execute")
  /\ Outstanding
  /\ session_state.pending_action.action_type = action_type

\* the goal map is as before except, possibly, for habit h
GoalsKeptExcept(h) ==
  /\ DOMAIN session_state'.habit_goals \ {h} = DOMAIN session_state.habit_goals \ {h}
  /\ \A g \in DOMAIN session_state.habit_goals \ {h} :
       session_state'.habit_goals[g] = session_state.habit_goals[g]

\* C13: after the executor ran a delete of habit h, the event log is the log before
\* without the events of h (the other events in their order) and the goal map has
\* no goal for h, also when h had a goal and no events.
C13_DeleteRemovesEventsAndGoal ==
  [][ExecutorRuns("delete")
     => /\ session_state'.habit_logs =
             SelectSeq(session_state.habit_logs,
                       LAMBDA log : log.habit # session_state.pending_action.habit)
        /\ session_state.pending_action.habit \notin DOMAIN session_state'.habit_goals
    ]_vars

\* C14: the executor's add of habit h changes neither the event log nor the goal
\* map when an event of h exists; else it appends one add event with the action
\* text "Added habit: h" and sets the goal of h to the default target when h has
\* a default, and leaves the goal map as it was when h has none.
C14_AddOnce ==
  [][ExecutorRuns("add")
     => IF session_state.pending_action.habit \in HabitsIn(session_state.habit_logs)
        THEN /\ session_state'.habit_logs = session_state.habit_logs
             /\ session_state'.habit_goals = session_state.habit_goals
        ELSE /\ Len(session_state'.habit_logs) = Len(session_state.habit_logs) + 1
             /\ SubSeq(session_state'.habit_logs, 1, Len(session_state.habit_logs))
                  = session_state.habit_logs
             /\ session_state'.habit_logs[Len(session_state'.habit_logs)].habit
                  = session_state.pending_action.habit
             /\ session_state'.habit_logs[Len(session_state'.habit_logs)].type = "add"
             /\ session_state'.habit_logs[Len(session_state'.habit_logs)].action
                  = <<"Added habit: ", session_state.pending_action.habit>>
             /\ IF session_state.pending_action.habit \in DOMAIN DEFAULT_GOALS
                THEN /\ session_state.pending_action.habit \in DOMAIN session_state'.habit_goals
                     /\ session_state'.habit_goals[session_state.pending_action.habit]
                          .target_per_week
                          = DEFAULT_GOALS[session_state.pending_action.habit]
                     /\ GoalsKeptExcept(session_state.pending_action.habit)
                ELSE session_state'.habit_goals = session_state.habit_goals
    ]_vars

\* C14's case: bob, who has no events, asked to add workout and the executor ran:
\* his log holds the one add event and his goal for workout is the default, 5
C14_Witness ==
  /\ last.key = "execute"
  /\ session_state.current_user = "bob"
  /\ Len(session_state.habit_logs) = 1
  /\ session_state.habit_logs[1].type = "add"
  /\ session_state.habit_logs[1].habit = "workout"
  /\ "workout" \in DOMAIN session_state.habit_goals
  /\ session_state.habit_goals["workout"].target_per_week = 5

\* C15: a set_goal command with a habit and a target > 0 sets the goal of its first
\* habit to the target and leaves the other goals and the event log as they were;
\* a set_goal command with no habit or a target <= 0 reports a warning and changes
\* neither the goal map, the event log nor the files.
C15_SetGoalValidated ==
  [][(ServiceStep("command") /\ last'.command.intent = "set_goal")
     => IF last'.command.habits # <<>> /\ last'.command.target > 0
        THEN /\ last'.command.habits[1] \in DOMAIN session_state'.habit_goals
             /\ session_state'.habit_goals[last'.command.habits[1]].target_per_week
                  = last'.command.target
             /\ GoalsKeptExcept(last'.command.habits[1])
             /\ session_state'.habit_logs = session_state.habit_logs
        ELSE /\ "goal_warning" \in last'.messages
             /\ NoMutation
    ]_vars

\* C15's case: ann set the goal of reading with the goal form, to 14, and then with
\* the command "set goal for reading 5 times per week": her goal of reading is 5
C15_Witness ==
  /\ last.key = "command"
  /\ last.command.intent = "set_goal"
  /\ last.command.habits = <<"reading">>
  /\ last.command.target = 5
  /\ cycles >= 2
  /\ DOMAIN session_state.habit_goals = {"reading"}
  /\ session_state.habit_goals["reading"].target_per_week = 5
  /\ goal_files["ann"] = session_state.habit_goals

\* the events of the log are in the order of their times
TimeOrdered ==
  \A i \in 1..(Len(session_state.habit_logs) - 1) :
    session_state.habit_logs[i].time <= session_state.habit_logs[i + 1].time

\* the log is as before, or has one more event at its end, or has lost every event
\* of one habit and no other
AppendOrDeleteHabit ==
  \/ session_state'.habit_logs = session_state.habit_logs
  \/ /\ Len(session_state'.habit_logs) = Len(session_state.habit_logs) + 1
     /\ SubSeq(session_state'.habit_logs, 1, Len(session_state.habit_logs))
          = session_state.habit_logs
  \/ \E h \in HabitsIn(session_state.habit_logs) :
       session_state'.habit_logs =
         SelectSeq(session_state.habit_logs, LAMBDA log : log.habit # h)

\* C16: the times of the events do not decrease along the log, and a step changes
\* the log only by appending one event at its end or by removing every event of
\* one habit.
C16_AppendOnlyTimeOrdered == []TimeOrdered /\ [][AppendOrDeleteHabit]_vars

\* C16's case: five minutes into the session the executor appended a log event to
\* ann's two earlier events; it is the last and the latest
C16_Witness ==
  /\ last.key = "execute"
  /\ Len(session_state.habit_logs) = 3
  /\ session_state.habit_logs[3].type = "log"
  /\ session_state.habit_logs[3].time = StartTime + SESSION_TIMEOUT
  /\ session_state.habit_logs[2].time < session_state.habit_logs[3].time
  /\ SubSeq(session_state.habit_logs, 1, 2) = InitialFiles["ann"]

\* the category of the taxonomy that lists habit h, or "Other"
CategoryOf(h) ==
  IF \E k \in 1..Len(HABIT_CATEGORIES) : h \in Elems(HABIT_CATEGORIES[k].habits)
  THEN HABIT_CATEGORIES[CHOOSE k \in 1..Len(HABIT_CATEGORIES) :
                          h \in Elems(HABIT_CATEGORIES[k].habits)].category
  ELSE "Other"

\* C17: every goal of the goal map has a target > 0 and the category of the
\* taxonomy that its habit belongs to.
C17_GoalsPositiveAndCategorised ==
  \A h \in DOMAIN session_state.habit_goals :
    /\ session_state.habit_goals[h].target_per_week > 0
    /\ session_state.habit_goals[h].category = CategoryOf(h)

\* C17's case: a goal set by command (yoga, 3), after the command "goal gym 0" was
\* refused
C17_Witness ==
  /\ last.key = "command"
  /\ last.command.intent = "set_goal"
  /\ last.command.habits = <<"yoga">>
  /\ "yoga" \in DOMAIN session_state.habit_goals
  /\ session_state.habit_goals["yoga"].target_per_week = 3
  /\ session_state.habit_goals["yoga"].category = "Health & Fitness"
  /\ "gym" \notin DOMAIN session_state.habit_goals
  /\ cycles >= 2

----------------------------------------------------------------------------
(* The interpreter's order of resolution and its habit lists               *)

\* the intents of the deterministic steps, in the order of the steps
StepIntents ==
  <<"set_goal", "streak_query", "progress_query", "dashboard",
    "confirm", "cancel", "help", "export">>

\* step k matches the text
StepMatches(k, text_lower) ==
  CASE k = 1 -> \E p \in 1..Len(GOAL_PATTERNS) : GoalHit(text_lower, p)
    [] k = 2 -> AnyIn(STREAK_KEYWORDS, text_lower)
    [] k = 3 -> AnyIn(PROGRESS_KEYWORDS, text_lower)
    [] k = 4 -> AnyIn(DASHBOARD_KEYWORDS, text_lower)
    [] k = 5 -> AnyIn(CONFIRM_WORDS, text_lower)
    [] k = 6 -> AnyIn(CANCEL_WORDS, text_lower)
    [] k = 7 -> AnyIn(HELP_WORDS, text_lower)
    [] k = 8 -> AnyIn(EXPORT_WORDS, text_lower)

MatchedSteps(text_lower) == {k \in 1..Len(StepIntents) : StepMatches(k, text_lower)}

\* the command is that of the first of the steps, and the API's reply has no part
\* in it; with no step, it is what the API's reply gives
FirstStepDecides(steps) ==
  IF steps # {}
  THEN /\ parsed_command.intent = StepIntents[Min(steps)]
       /\ \A response \in Responses :
            parse_voice_command(raw_text, response) = parsed_command
  ELSE parsed_command = to_command(raw_text, call_openai_parse(raw_text, oracle_response))

C19_BothHabitsLogged ==
  parsed_command # NoAction
    => \A h1, h2 \in Elems(COMMON_HABITS) :
         raw_text = PairText(h1, h2)
           => /\ parsed_command.intent = "log"
              /\ {h1, h2} \subseteq Elems(parsed_command.habits)

\* C20: the habits of a command hold no name twice, whatever the text and whatever
\* the API replies.
C20_HabitsWithoutDuplicates ==
  parsed_command # NoAction
    => \A i, j \in 1..Len(parsed_command.habits) :
         i # j => parsed_command.habits[i] # parsed_command.habits[j]

\* the number written by the digits from position a to the end of their run
IntegerAt(s, a) ==
  ToInt(SubSeq(s, a, Min({j \in a..Len(s) : j = Len(s) \/ s[j + 1] \notin DigitChars})))

\* the first number written in the text
FirstInteger(s) == IntegerAt(s, Min({i \in 1..Len(s) : s[i] \in DigitChars}))

\* the intent and the target that the rule of the fallback gives the text
FallbackRule(text_lower, command) ==
  IF Contains(text_lower, W_add) \/ Contains(text_lower, W_create)
  THEN command.intent = "add"
  ELSE IF Contains(text_lower, W_delete) \/ Contains(text_lower, W_remove)
  THEN command.intent = "delete"
  ELSE IF Contains(text_lower, W_goal) /\ \E i \in 1..Len(text_lower) : text_lower[i] \in DigitChars
  THEN command.intent = "set_goal" /\ command.target = FirstInteger(text_lower)
  ELSE command.intent = "log" /\ command.target = 0

\* C26: when no step before the API matches the text and the API gives no command,
\* the intent is add if the text holds "add" or "create"; else delete if it holds
\* "delete" or "remove"; else set_goal, the target being the first number of the
\* text, if it holds "goal" and a digit; else log with the target 0.
C26_FallbackIntentRule ==
  (parsed_command # NoAction /\ NoStepMatches(raw_text) /\ oracle_response \in UnusableResponses)
    => FallbackRule(lower(raw_text), parsed_command)

\* C26's case: "goal gym 12 or 3" with the API down is a set_goal with the target 12
C26_Witness ==
  /\ raw_text = T_goal_gym_12_or_3
  /\ oracle_response = R_down
  /\ NoStepMatches(raw_text)
  /\ parsed_command # NoAction
  /\ parsed_command.intent = "set_goal"
  /\ parsed_command.target = 12

----------------------------------------------------------------------------
(* Persistence, checked under SpecService                                   *)

\* the step is a call of the service that changed the event log, the goal map
LogMutated == cycles' = cycles + 1 /\ session_state'.habit_logs # session_state.habit_logs
GoalsMutated == cycles' = cycles + 1 /\ session_state'.habit_goals # session_state.habit_goals

\* what is stored for the active user is what the session holds
EventsPersisted == user_files'[page.user] = session_state'.habit_logs
GoalsPersisted == goal_files'[page.user] = session_state'.habit_goals

C22_SaveFailureReported ==
  [][(/\ cycles' = cycles + 1
      /\ last'.save_failed
      /\ last'.key \in {"execute", "command"})
     => IF last'.key = "execute"
        THEN /\ session_state'.habit_logs
                  = execute_confirmed_action(World(NoTrigger, TRUE)).ss.habit_logs
             /\ session_state'.habit_goals
                  = execute_confirmed_action(World(NoTrigger, TRUE)).ss.habit_goals
             /\ last'.messages
                  # execute_confirmed_action(World(NoTrigger, TRUE)).out.messages
        ELSE /\ session_state'.habit_goals
                  = handle_habit_action(World(NoTrigger, TRUE), last'.command,
                                        page.user).ss.habit_goals
             /\ last'.messages
                  # handle_habit_action(World(NoTrigger, TRUE), last'.command,
                                        page.user).out.messages
    ]_vars

\* the executor runs on the pending action that the call before it recorded for a
\* command of this type
ConfirmsLastCommand(action_type) ==
  /\ ExecutorRuns(action_type)
  /\ last.key = "command"
  /\ "confirm_action" \in last.messages
  /\ last.command.intent = action_type

\* C23: the executor's run on an add command adds every habit that the command
\* names, and its run on a log command appends a log event for every habit that
\* the command names.
C23_EveryNamedHabitApplied ==
  [][/\ ConfirmsLastCommand("add")
          => Elems(last.command.habits) \subseteq HabitsIn(session_state'.habit_logs)
     /\ ConfirmsLastCommand("log")
          => \A h \in Elems(last.command.habits) :
               \E i \in (Len(session_state.habit_logs) + 1)..Len(session_state'.habit_logs) :
                 /\ session_state'.habit_logs[i].habit = h
                 /\ session_state'.habit_logs[i].type = "log"
    ]_vars

----------------------------------------------------------------------------
(* The Submit Command handler, checked under SpecSubmit                     *)

\* the step is a cycle in which a command was submitted
Submitted == cycles' = cycles + 1 /\ last'.key = "submit"

\* C24: the command "Show my progress" has the intent dashboard and opens the
\* dashboard; "Show my weekly progress" and "How am I doing?" have the intent
\* progress_query and show the weekly progress.
C24_ShowMyProgressOpensDashboard ==
  [][Submitted
     => /\ last'.text = T_show_my_progress
             => /\ last'.command.intent = "dashboard"
                /\ session_state'.show_dashboard
        /\ last'.text \in {T_show_weekly_progress, T_how_am_i_doing}
             => /\ last'.command.intent = "progress_query"
                /\ "weekly_progress" \in last'.messages
    ]_vars

\* C25: while a pending action is outstanding and not expired, a submitted command
\* with the intent confirm runs the executor on it, and one with the intent cancel
\* clears it and changes neither the event log, the goal map nor the files.
C25_ConfirmAndCancelCommandsReachGate ==
  [][(Submitted /\ Outstanding /\ NotExpired)
     => /\ last'.command.intent = "confirm"
             => /\ last'.executed
                /\ ~IsPending(session_state'.pending_action)
        /\ last'.command.intent = "cancel"
             => /\ ~IsPending(session_state'.pending_action)
                /\ NoMutation
    ]_vars

\* the command needs no confirmation: a goal, a view, a question, or a log, add or
\* delete that names no habit
Unconfirmed(command) ==
  \/ command.intent \in {"set_goal", "dashboard", "query", "streak_query",
                         "progress_query", "help", "export"}
  \/ command.intent \in {"log", "add", "delete"} /\ command.habits = <<>>

\* the timeout check of the cycle cleared the pending action, which had expired
ClearedByTimeout ==
  /\ Outstanding
  /\ Expired
  /\ last'.timed_out
  /\ ~IsPending(session_state'.pending_action)

\* C30: a submitted command that needs no confirmation leaves the pending action as
\* the timeout check of its cycle left it and leaves the event log as it was; the
\* goal map changes only for a set_goal with a habit and a positive target, and
\* then only in the entry of its first habit, which gets the target.
C30_UnconfirmedCommandsKeepGateAndLog ==
  [][(Submitted /\ Unconfirmed(last'.command))
     => /\ \/ session_state'.pending_action = session_state.pending_action
           \/ ClearedByTimeout
        /\ ~last'.replaced
        /\ ~last'.executed
        /\ session_state'.habit_logs = session_state.habit_logs
        /\ IF /\ last'.command.intent = "set_goal"
              /\ last'.command.habits # <<>>
              /\ last'.command.target > 0
           THEN /\ GoalsKeptExcept(last'.command.habits[1])
                /\ last'.command.habits[1] \in DOMAIN session_state'.habit_goals
                /\ session_state'.habit_goals[last'.command.habits[1]].target_per_week
                     = last'.command.target
           ELSE session_state'.habit_goals = session_state.habit_goals
    ]_vars

\* C30's case: while a delete of workout is pending, the question about reading
\* was submitted: the delete is still pending and nothing was recorded or run
C30_Witness ==
  /\ last.key = "submit"
  /\ last.command.intent = "query"
  /\ last.command.habits = <<"reading">>
  /\ ~last.replaced
  /\ ~last.timed_out
  /\ IsPending(session_state.pending_action)
  /\ session_state.pending_action.action_type = "delete"
  /\ session_state.pending_action.habit = "workout"

----------------------------------------------------------------------------
(* The life of a pending action, checked under SpecLive                     *)

\* the times the clock of SpecLive can show
LiveTimes == {StartTime + a * SESSION_TIMEOUT + b : a \in 0..2, b \in 0..2}

\* the pending action recorded at time t is outstanding
OutstandingSince(t) == Outstanding /\ session_state.pending_action.timestamp = t

\* C27: a pending action does not stay outstanding forever when the clock advances
\* and the page keeps being run for an active user: the pending action recorded at
\* any time is eventually gone, and a cycle that starts more than 300 s after the
\* time of a pending action does not leave that pending action outstanding.
C27_PendingEventuallyDestroyed ==
  /\ \A t \in LiveTimes : OutstandingSince(t) ~> ~OutstandingSince(t)
  /\ [][(Outstanding /\ Expired /\ now' = now /\ last' # last)
          => session_state'.pending_action # session_state.pending_action]_vars

\* C27's case: a pending action was left alone, the clock passed its timeout and
\* the next run of the page cleared it
C27_Witness ==
  /\ last.timed_out
  /\ last.key = "none"
  /\ ~Outstanding
  /\ now > StartTime + SESSION_TIMEOUT

----------------------------------------------------------------------------
(* Current and longest streaks together, checked under SpecAnalytics        *)

\* C28: every habit that has a current streak has a longest streak, and its
\* current streak is not longer than its longest streak.
C28_CurrentWithinLongest ==
  streaks.computed = {"current", "longest"}
    => \A h \in DOMAIN streaks.current :
         /\ h \in DOMAIN streaks.longest
         /\ streaks.current[h] <= streaks.longest[h]

\* C28's case: reading was logged on three days in a row, the last of them
\* yesterday: the current streak and the longest streak are both 3
C28_Witness ==
  /\ streaks.computed = {"current", "longest"}
  /\ Len(habit_logs) = 3
  /\ \A i \in 1..3 : habit_logs[i].type = "log" /\ habit_logs[i].habit = "reading"
  /\ \A i \in 1..3 : DateOf(habit_logs[i].time) = today - 4 + i
  /\ streaks.current["reading"] = 3
  /\ streaks.longest["reading"] = 3

----------------------------------------------------------------------------
(* The default goal of an added habit, checked under SpecService            *)

\* the executor runs an add of a habit that has a goal already
AddOverExistingGoal ==
  /\ ExecutorRuns("add")
  /\ session_state.pending_action.habit \in DOMAIN session_state.habit_goals

\* C29 as stated: a confirmed add of a habit never changes the target of the
\* goal the habit has already.
C29_Original_ExistingGoalKept ==
  [][AddOverExistingGoal
       => /\ session_state.pending_action.habit \in DOMAIN session_state'.habit_goals
          /\ session_state'.habit_goals[session_state.pending_action.habit].target_per_week
               = session_state.habit_goals[session_state.pending_action.habit].target_per_week
    ]_vars

\* C29, amended: a confirmed add of a habit leaves the goal the habit has already
\* as it is when the habit has an event or no default target, and otherwise
\* replaces its target by the default target; no other habit's goal changes.
C29_ExistingGoalKeptOrDefault ==
  [][AddOverExistingGoal
       => /\ session_state.pending_action.habit \in DOMAIN session_state'.habit_goals
          /\ GoalsKeptExcept(session_state.pending_action.habit)
          /\ session_state'.habit_goals[session_state.pending_action.habit].target_per_week
               = IF /\ session_state.pending_action.habit
                         \notin HabitsIn(session_state.habit_logs)
                    /\ session_state.pending_action.habit \in DOMAIN DEFAULT_GOALS
                 THEN DEFAULT_GOALS[session_state.pending_action.habit]
                 ELSE session_state.habit_goals[session_state.pending_action.habit]
                        .target_per_week
    ]_vars

\* C29's case: bob set a goal of 3 for workout before he had any event, then
\* asked to add workout and the executor ran: the goal for workout is 5
C29_Witness ==
  /\ last.key = "execute"
  /\ last.executed
  /\ page.user = "bob"
  /\ Len(session_state.habit_logs) = 1
  /\ session_state.habit_logs[1].type = "add"
  /\ session_state.habit_logs[1].habit = "workout"
  /\ "workout" \in DOMAIN session_state.habit_goals
  /\ session_state.habit_goals["workout"].target_per_week = 5
  /\ "default_goal" \in last.messages

=============================================================================
